---------------------------- MODULE Spec2Model ----------------------------
(***************************************************************************)
(* A model of LiveEngine's merge-decide-execute pipeline.                  *)
(*                                                                         *)
(* Part I models the two stream mergers,                                   *)
(*   merge_nfl_and_kalshi_streams (connectors/kalshi/nfl_state_merger.py)  *)
(*   merge_nba_and_kalshi_streams (connectors/kalshi/nba_state_merger.py)  *)
(* as they run on a single-threaded asyncio event loop: the merger runs    *)
(* without interruption from one suspension point (await / yield) to the   *)
(* next, and its sources and the clock move only while it is suspended.    *)
(*                                                                         *)
(* Part II models KalshiBroker (engine/broker.py).                         *)
(*                                                                         *)
(* Part III models the game workers' run_worker (automation/game_worker.py *)
(* and automation/nfl/game_worker.py) with CompositeStrategy.on_state      *)
(* (strategies/composite.py) and the state writer (storage/state_writer.py)*)
(*                                                                         *)
(* Part IV models the reconnecting tick streams, ticker_stream             *)
(* (connectors/kalshi/ticker_stream.py) and kalshi_ticker_stream           *)
(* (connectors/kalshi/ws_stream.py), seen from the socket.                 *)
(*                                                                         *)
(* Optional values (Python's None) are sequences: <<>> is None, <<v>> is   *)
(* the value v.  Times are in whole seconds, the heartbeat interval; the   *)
(* 0.1 s throttle sleep is below the clock's resolution.  Prices are in    *)
(* thousandths of a dollar, money in cents.                                *)
(***************************************************************************)
EXTENDS Integers, Sequences, FiniteSets, TLC

VARIABLES
    \* ---- merger: program state
    league,          \* "nfl" or "nba": which merger is running
    pc,              \* where the merger coroutine stands
    latest_score,    \* Optional snapshot
    markets,         \* instrument table: market id -> market dict
    tick_queue,      \* NFL: asyncio.Queue of raw ticks
    tick_eos,        \* NFL: the None sentinel is at the tail of tick_queue
    score_queue,     \* NFL: asyncio.Queue of snapshots
    score_eos,       \* NFL: the None sentinel is at the tail of score_queue
    ticks_alive,     \* NFL flag
    scores_alive,    \* NFL flag
    last_emit,       \* NFL: time of the last emission
    score_done,      \* NBA: asyncio.Event
    sb_alive,        \* NBA: the scoreboard worker task is still iterating
    emitted,         \* the States yielded so far, in order
    \* ---- merger: environment
    now,             \* wall clock
    tick_src_open,   \* the tick source has not ended
    score_src_open,  \* the scoreboard source has not ended
    n_ticks,         \* ticks delivered by the tick source so far
    n_snaps,         \* snapshots delivered by the scoreboard source so far
    \* ---- merger: history (read by properties only)
    recv_score,      \* the last snapshot the source delivered
    recv_markets,    \* the table that holds every delivered tick
    processed,       \* ticks taken up by the merger, in order
    last_tick,       \* the last tick taken up and the table before it (Optional)
    score_at,        \* the clock when the first snapshot was received (Optional)
    \* ---- broker: program state
    dry_run,         \* KalshiBroker.dry_run
    positions,       \* KalshiBroker._positions: market id -> position
    \* ---- broker: environment and history
    venue_calls,     \* calls that reached the venue: balance lookups, orders
    n_exec,          \* execute calls so far
    last_exec,       \* what the last execute call did (Optional)
    \* ---- worker: program state
    w_phase,         \* "waiting" (before the loop), "active", "exited"
    w_state_count,   \* state_count
    w_recorded,      \* PredictEngineStateWriter._count
    w_last_rest_check, \* last_rest_check, on the worker's clock
    w_flushed,       \* state_writer.flush() has been called
    w_raised,        \* run_worker ended by raising: a non-zero exit
    w_bg,            \* the merger's background tasks: "none", "running",
                     \* "cancelled" (cancelled and awaited)
    \* ---- worker: environment and history
    w_clock,         \* time.time(), in clock steps
    w_exit,          \* why the worker left: "" while it runs
    w_lost,          \* an append_state call has failed
    w_checks,        \* settlement checks issued so far
    w_check,         \* what the venue answered to the last check (Optional)
    w_last,          \* what the loop did with the last State (Optional)
    \* ---- tick stream: program state
    t_impl,          \* "ticker_stream" or "kalshi_ticker_stream"
    t_pc,            \* "start", "reading", "backoff", "ended", "cancelled"
    t_last_ticker_ts, \* last_ticker_ts, on the stream's clock
    \* ---- tick stream: environment and history
    t_clock,         \* datetime.now(), in seconds
    t_attempts,      \* calls of websockets.connect so far
    t_subscribed,    \* subscriptions sent so far
    t_failures,      \* exceptions caught by the stream's handler so far
    t_backoffs,      \* backoff sleeps completed so far
    t_idle_breaks,   \* deliberate reconnects after idling so far
    t_reads,         \* calls of ws.recv so far
    t_yielded,       \* ticks yielded so far
    t_last,          \* what the stream did last (Optional)
    \* ---- state log: program state
    f_file,          \* the game's states file: its content, None if missing
    f_phase,         \* "none" (no writer), "open", "finished", "crashed"
    f_count,         \* PredictEngineStateWriter._count
    \* ---- state log: history
    f_runs,          \* writers constructed so far
    f_appended,      \* the States of the append_state calls that returned
    f_evaluated,     \* the States handed on to the strategies
    f_torn,          \* writes a crash has cut short so far
    \* ---- strategy
    s_name,          \* which strategy class is configured
    s_in,            \* the State and portfolio view of the last on_state call
    s_out,           \* the intents it returned (Optional)
    \* ---- NFL merger loop, followed over its suspension points
    loop,            \* the frame of merge_nfl_states and its two queues
    l_tick_src,      \* the tick source: "open", "ended", "failed"
    l_score_src,     \* the scoreboard source: "open", "ended", "failed"
    l_delivered,     \* snapshots the scoreboard source has delivered so far
    \* ---- deficit-recovery strategy
    d_games,         \* self.state["games"]: per game id, the two maxima
    d_in,            \* the State and portfolio view of the last on_state call
    d_out,           \* the intents it returned (Optional)
    d_seen,          \* history: <<game id, score_home, score_away>> of every
                     \* State handed to on_state so far
    \* ---- trading cycle of a worker: program state
    mode_str,        \* trading_config.get("mode"): None when the key is missing
    c_state,         \* the State of the cycle under way or last run (Optional)
    c_intents,       \* what composite_strategy.on_state returned for it
    c_pending,       \* those of them that broker.execute has not got yet
    c_games,         \* the deficit-recovery strategy's self.state["games"]
    \* ---- trading cycle: history
    c_entry,         \* per instrument held, the price its position was
                     \* opened at, in thousandths of a dollar
    c_cycles         \* cycles begun so far

mvars == <<league, pc, latest_score, markets, tick_queue, tick_eos, score_queue,
           score_eos, ticks_alive, scores_alive, last_emit,
           score_done, sb_alive, emitted, now, tick_src_open, score_src_open,
           n_ticks, n_snaps, recv_score, recv_markets, processed, last_tick, score_at>>

bvars == <<dry_run, positions, venue_calls, n_exec, last_exec>>

wvars == <<w_phase, w_state_count, w_recorded, w_last_rest_check, w_flushed,
           w_raised, w_bg, w_clock, w_exit, w_lost, w_checks, w_check,
           w_last>>

tvars == <<t_impl, t_pc, t_last_ticker_ts, t_clock, t_attempts, t_subscribed,
           t_failures, t_backoffs, t_idle_breaks, t_reads, t_yielded, t_last>>

fvars == <<f_file, f_phase, f_count, f_runs, f_appended, f_evaluated, f_torn>>

svars == <<s_name, s_in, s_out>>

lvars == <<loop, l_tick_src, l_score_src, l_delivered>>

dvars == <<d_games, d_in, d_out, d_seen>>

cvars == <<mode_str, c_state, c_intents, c_pending, c_games, c_entry, c_cycles>>

\* the components modelled after the strategies
xvars == <<lvars, dvars, cvars>>

vars == <<mvars, bvars, wvars, tvars, fvars, svars, xvars>>

----------------------------------------------------------------------------
(* Bounds of the model *)

MaxTicks == 2
MaxSnaps == 2
MaxTime == 2
MaxExec == 2
\* States the worker's stream delivers
MaxStates == 3
\* the worker's clock runs for this many steps of ClockStep seconds
MaxClock == 4
ClockStep == 30
\* strategies wrapped by the CompositeStrategy
NStrategies == 2
\* calls of ws.recv and of websockets.connect the tick stream makes
MaxReads == 7
MaxAttempts == 4
\* append_state calls on a states file, and writers constructed for it
MaxAppends == 3
MaxRuns == 2
\* ticks that wait in the merger's tick_queue at once
MaxQueue == 2
\* States a worker runs its trading cycle on
MaxCycles == 3

(* Program constants *)

\* `if time.time() - last_rest_check > 60:`
REST_CHECK_SECS == 60
\* `asyncio.wait_for(ws.recv(), timeout=30.0)`
READ_TIMEOUT_SECS == 30
\* INACTIVITY_RECONNECT_SECS = 90.0
INACTIVITY_RECONNECT_SECS == 90
\* `await asyncio.sleep(5.0)`
BACKOFF_SECS == 5

\* `(now - last_emit).total_seconds() >= 1.0`
HEARTBEAT_SECS == 1
\* MAX_ORDER_VALUE_SAFETY_CAP = 1000.00 dollars, in cents
MAX_ORDER_VALUE_SAFETY_CAP == 100000
\* max_contracts_per_order: int = 5000
MAX_CONTRACTS_PER_ORDER == 5000
\* the $5.00 buffer of the balance check, in cents
BALANCE_BUFFER == 500

----------------------------------------------------------------------------
(* Values *)

None == <<>>
Some(v) == <<v>>
\* a raw value that float() rejects
Bad == <<0, 0>>

HOME_TEAM == "HOM"
AWAY_TEAM == "AWY"
GAME_ID == "G1"

\* "KX-HOM" ends in the home team's code, "A" has no dash; "" is a tick
\* that carries no market_ticker.
MarketIds == {"KX-HOM", "A"}
InitialMarkets == {"KX-HOM"}

HasDash(mt) == mt = "KX-HOM"
Suffix(mt) == IF mt = "KX-HOM" THEN "HOM" ELSE mt

DataFields == {"price", "last_prob", "yes_bid_prob", "yes_ask_prob", "volume",
               "open_interest", "status"}
PriceFields == {"price", "last_prob", "yes_bid_prob", "yes_ask_prob"}

\* The market dict the NFL merger seeds and creates lazily: every key it
\* does not set reads as None through dict.get.
NFLNewMarket ==
    [price |-> None, last_prob |-> None, yes_bid_prob |-> None,
     yes_ask_prob |-> None, volume |-> None, open_interest |-> None,
     status |-> None, team |-> None, side |-> "unknown"]

NBASeedMarket == NFLNewMarket

\* The dict the NBA merger builds for a market first seen in a tick.
NBANewMarket(tick) ==
    [price |-> None, last_prob |-> tick.price_prob,
     yes_bid_prob |-> tick.yes_bid_prob, yes_ask_prob |-> tick.yes_ask_prob,
     volume |-> tick.volume, open_interest |-> tick.open_interest,
     status |-> tick.status, team |-> None, side |-> "unknown"]

SeedMarkets(lg) ==
    [mt \in InitialMarkets |-> IF lg = "nfl" THEN NFLNewMarket ELSE NBASeedMarket]

\* Raw ticks, as the tick source hands them over.  n is the tick's number:
\* each tick carries its own values, so that a stale value can be told
\* from a fresh one.
RawTick(n, mt, shape, ts) ==
    [no |-> n, ts_iso |-> ts, market_ticker |-> mt,
     price_prob    |-> IF shape = "rest" THEN Some(10 * n + 1) ELSE None,
     yes_bid_prob  |-> IF shape = "rest" THEN Some(10 * n) ELSE None,
     yes_ask_prob  |-> IF shape = "ask" THEN Some(10 * n + 2) ELSE None,
     volume        |-> IF shape = "rest" THEN Some(100 * n)
                       ELSE IF shape = "blank" THEN Bad ELSE None,
     open_interest |-> IF shape = "rest" THEN Some(50 * n) ELSE None,
     status        |-> IF shape = "rest" THEN Some("active")
                       ELSE IF shape = "blank" THEN Some("") ELSE None]

\* The n-th snapshot of the scoreboard source: the home side starts 50-42
\* ahead and scores a touchdown between snapshots.  The source may also
\* hand over a snapshot of another game, or a final one.
Snapshots(n) ==
    { [no |-> n, game_id |-> gs[1], score_home |-> 50 + 7 * (n - 1),
       score_away |-> 42, status |-> gs[2]]
      : gs \in {<<GAME_ID, "LIVE">>, <<"G2", "LIVE">>, <<GAME_ID, "FINAL">>} }

----------------------------------------------------------------------------
(* KalshiTick.from_raw *)

SafeFloat(x) == IF Len(x) = 1 THEN x ELSE None

StatusOrNone(s) == IF s = None \/ s = Some("") THEN None ELSE s

FromRaw(raw, t) ==
    [no |-> raw.no,
     ts_iso |-> IF Len(raw.ts_iso) = 1 THEN raw.ts_iso[1] ELSE t,
     market_ticker |-> raw.market_ticker,
     price_prob |-> SafeFloat(raw.price_prob),
     yes_bid_prob |-> SafeFloat(raw.yes_bid_prob),
     yes_ask_prob |-> SafeFloat(raw.yes_ask_prob),
     volume |-> SafeFloat(raw.volume),
     open_interest |-> SafeFloat(raw.open_interest),
     status |-> StatusOrNone(raw.status)]

----------------------------------------------------------------------------
(* The tick application shared by the seeded and the lazily created market *)

\* a faulty variant that assigns the tick's field whether present or not
ApplyFieldOverwrite(old, new) == new

\* `if tick.f is not None: m[f] = tick.f`
ApplyField(old, new) == IF new # None THEN new ELSE old

\* nfl_state_merger.py, "Apply updates"
NFLApplyTick(m, tick) ==
    [m EXCEPT !.price = ApplyField(@, tick.price_prob),
              !.yes_bid_prob = ApplyField(@, tick.yes_bid_prob),
              !.yes_ask_prob = ApplyField(@, tick.yes_ask_prob),
              !.volume = ApplyField(@, tick.volume),
              !.open_interest = ApplyField(@, tick.open_interest),
              !.status = ApplyField(@, tick.status)]

\* "Infer side": only while team is still None and the id has a dash
InferSide(m, mt) ==
    IF m.team = None /\ HasDash(mt) /\ Suffix(mt) \in {HOME_TEAM, AWAY_TEAM}
    THEN [m EXCEPT !.team = Some(Suffix(mt)),
                   !.side = IF Suffix(mt) = HOME_TEAM THEN "home" ELSE "away"]
    ELSE m

\* markets.get(mt), lazily created, patched, side inferred
NFLUpsert(tbl, tick) ==
    LET mt == tick.market_ticker
        m0 == IF mt \in DOMAIN tbl THEN tbl[mt] ELSE NFLNewMarket
        m1 == InferSide(NFLApplyTick(m0, tick), mt)
    IN  [x \in DOMAIN tbl \cup {mt} |-> IF x = mt THEN m1 ELSE tbl[x]]

\* build_nfl_state_dict / build_nba_state_dict: the fields the properties
\* read.  kind, tick_no and the two seen_* fields are history: what
\* triggered the State and what the sources had delivered when it was built.
BuildState(scoreboard, tbl, ts, kind, tick_no) ==
    [timestamp |-> ts,
     game_id |-> scoreboard.game_id,
     score_home |-> scoreboard.score_home,
     score_away |-> scoreboard.score_away,
     score_diff |-> scoreboard.score_home - scoreboard.score_away,
     snapshot_no |-> scoreboard.no,
     markets |-> tbl,
     kind |-> kind,
     tick_no |-> tick_no,
     seen_score |-> recv_score,
     seen_markets |-> recv_markets]

\* `if latest_score:` / `if latest_score is None:`
HasScore(s) == s # None

----------------------------------------------------------------------------
(* The NFL merger: merge_nfl_and_kalshi_streams                            *)
(*                                                                         *)
(* The generator runs from one suspension point to the next without        *)
(* interruption.  Its suspension points are the two yields and the         *)
(* throttle sleep; NFLSectionA/B/C compute, from the merger's state L at   *)
(* the top of the loop (or inside section B), its state at the next one.   *)
(* t is the clock reading during the run.                                  *)

NFLSuspended == {"sleep", "yield_tick", "yield_hb"}

\* the generator's locals; did_update is assigned before it is read in every
\* run, so it is no part of the state between runs
NFLLocals ==
    [pc |-> pc, latest_score |-> latest_score, markets |-> markets,
     tick_queue |-> tick_queue, tick_eos |-> tick_eos,
     score_queue |-> score_queue, score_eos |-> score_eos,
     ticks_alive |-> ticks_alive, scores_alive |-> scores_alive,
     did_update |-> FALSE, last_emit |-> last_emit, emitted |-> emitted,
     processed |-> processed, last_tick |-> last_tick]

RECURSIVE NFLSectionA(_, _), NFLSectionB(_, _)

\* sections C (heartbeat) and D (throttle), then the loop again
NFLSectionC(L, t) ==
    IF HasScore(L.latest_score) /\ t - L.last_emit >= HEARTBEAT_SECS
    THEN [L EXCEPT !.emitted = Append(@, BuildState(L.latest_score[1],
                                          L.markets, t, "heartbeat", 0)),
                   !.pc = "yield_hb"]
    ELSE IF L.did_update THEN NFLSectionA(L, t)
    ELSE [L EXCEPT !.pc = "sleep"]

\* section B: `while not tick_queue.empty()`, up to the next yield
NFLSectionB(L, t) ==
    IF L.tick_queue # <<>>
    THEN LET tick == FromRaw(Head(L.tick_queue), t)
             mt == tick.market_ticker
             tbl == NFLUpsert(L.markets, tick)
             L1 == [L EXCEPT !.tick_queue = Tail(@)]
             L2 == [L1 EXCEPT !.markets = tbl,
                              !.last_tick = Some([tick |-> tick,
                                                  before |-> L.markets]),
                              !.processed = Append(@,
                                  [no |-> tick.no, ts |-> tick.ts_iso,
                                   had_score |-> HasScore(L.latest_score)])]
         IN  IF mt = "" THEN NFLSectionB(L1, t)
             ELSE IF HasScore(L.latest_score)
             THEN [L2 EXCEPT !.emitted = Append(@, BuildState(L.latest_score[1],
                                              tbl, tick.ts_iso, "tick", tick.no)),
                             !.pc = "yield_tick"]
             ELSE NFLSectionB(L2, t)
    ELSE IF L.tick_eos
    THEN NFLSectionC([L EXCEPT !.ticks_alive = FALSE, !.tick_eos = FALSE], t)
    ELSE NFLSectionC(L, t)

\* the loop's exit test, then section A: drain the score queue, keep the
\* latest.  On exit the cleanup cancels and awaits both consumer tasks.
NFLSectionA(L, t) ==
    IF ~L.ticks_alive /\ ~L.scores_alive
    THEN [L EXCEPT !.pc = "done"]
    ELSE NFLSectionB(
           [L EXCEPT !.scores_alive = (@ /\ ~L.score_eos),
                     !.score_eos = FALSE,
                     !.score_queue = <<>>,
                     !.latest_score = IF L.score_queue # <<>>
                                      THEN Some(L.score_queue[Len(L.score_queue)])
                                      ELSE @,
                     !.did_update = (L.score_queue # <<>>)], t)

NFLSet(L) ==
    /\ pc' = L.pc
    /\ latest_score' = L.latest_score
    /\ markets' = L.markets
    /\ tick_queue' = L.tick_queue
    /\ tick_eos' = L.tick_eos
    /\ score_queue' = L.score_queue
    /\ score_eos' = L.score_eos
    /\ ticks_alive' = L.ticks_alive
    /\ scores_alive' = L.scores_alive
    /\ last_emit' = L.last_emit
    /\ emitted' = L.emitted
    /\ processed' = L.processed
    /\ last_tick' = L.last_tick

\* the first run of the generator, up to its first suspension
NFL_Start ==
    /\ league = "nfl" /\ pc = "start"
    /\ NFLSet(NFLSectionA(NFLLocals, now))
    /\ UNCHANGED <<bvars, wvars, tvars, fvars, svars, xvars, league, score_done, sb_alive, now, tick_src_open,
                   score_src_open, n_ticks, n_snaps, recv_score, recv_markets,
                   score_at>>

\* `await asyncio.sleep(0.1)` returns: the clock reads the same second or
\* a later one
NFL_Wake(d) ==
    /\ league = "nfl" /\ pc = "sleep"
    /\ d >= 0 /\ now + d <= MaxTime
    /\ now' = now + d
    /\ NFLSet(NFLSectionA(NFLLocals, now + d))
    /\ UNCHANGED <<bvars, wvars, tvars, fvars, svars, xvars, league, score_done, sb_alive, tick_src_open, score_src_open,
                   n_ticks, n_snaps, recv_score, recv_markets, score_at>>

\* the consumer asks for the next State after a tick State: the two lines
\* after the yield of section B, then the rest of section B
NFL_ResumeTick ==
    /\ league = "nfl" /\ pc = "yield_tick"
    /\ NFLSet(NFLSectionB([NFLLocals EXCEPT !.last_emit = now,
                                            !.did_update = TRUE], now))
    /\ UNCHANGED <<bvars, wvars, tvars, fvars, svars, xvars, league, score_done, sb_alive, now, tick_src_open,
                   score_src_open, n_ticks, n_snaps, recv_score, recv_markets,
                   score_at>>

\* the consumer asks for the next State after a heartbeat State:
\* `last_emit = now` (the heartbeat's time), no throttle, the loop again
NFL_ResumeHeartbeat ==
    /\ league = "nfl" /\ pc = "yield_hb"
    /\ NFLSet(NFLSectionA(
           [NFLLocals EXCEPT !.last_emit = emitted[Len(emitted)].timestamp,
                             !.did_update = TRUE], now))
    /\ UNCHANGED <<bvars, wvars, tvars, fvars, svars, xvars, league, score_done, sb_alive, now, tick_src_open,
                   score_src_open, n_ticks, n_snaps, recv_score, recv_markets,
                   score_at>>

\* _consume_ticks: the tick source yields a tick, which goes on the queue
NFL_ConsumeTick(raw) ==
    /\ league = "nfl" /\ pc \in NFLSuspended
    /\ tick_src_open /\ n_ticks < MaxTicks
    /\ n_ticks' = n_ticks + 1
    /\ tick_queue' = Append(tick_queue, raw)
    /\ recv_markets' = IF raw.market_ticker = "" THEN recv_markets
                       ELSE NFLUpsert(recv_markets, FromRaw(raw, now))
    /\ UNCHANGED <<bvars, wvars, tvars, fvars, svars, xvars, league, pc, latest_score, markets, tick_eos, score_queue,
                   score_eos, ticks_alive, scores_alive, last_emit,
                   score_done, sb_alive, emitted, now, tick_src_open,
                   score_src_open, n_snaps, recv_score, processed, last_tick, score_at>>

\* _consume_ticks: the tick source is exhausted, the sentinel goes on the queue
NFL_TicksExhausted ==
    /\ league = "nfl" /\ pc \in NFLSuspended
    /\ tick_src_open
    /\ tick_src_open' = FALSE
    /\ tick_eos' = TRUE
    /\ UNCHANGED <<bvars, wvars, tvars, fvars, svars, xvars, league, pc, latest_score, markets, tick_queue, score_queue,
                   score_eos, ticks_alive, scores_alive, last_emit,
                   score_done, sb_alive, emitted, now, score_src_open,
                   n_ticks, n_snaps, recv_score, recv_markets, processed,
                   last_tick, score_at>>

\* a faulty variant in which the task itself stores the snapshot
NFL_ConsumeScoreStoring(snap) ==
    /\ league = "nfl" /\ pc \in NFLSuspended
    /\ score_src_open /\ n_snaps < MaxSnaps
    /\ n_snaps' = n_snaps + 1
    /\ latest_score' = Some(snap)
    /\ recv_score' = Some(snap)
    /\ score_at' = IF score_at = None THEN Some(now) ELSE score_at
    /\ UNCHANGED <<bvars, wvars, tvars, fvars, svars, xvars, league, pc, markets, tick_queue, tick_eos,
                   score_queue, score_eos, ticks_alive, scores_alive, last_emit,
                   score_done, sb_alive, emitted, now, tick_src_open,
                   score_src_open, n_ticks, recv_markets, processed, last_tick>>

\* _consume_scores: the scoreboard source yields a snapshot
NFL_ConsumeScore(snap) ==
    /\ league = "nfl" /\ pc \in NFLSuspended
    /\ score_src_open /\ n_snaps < MaxSnaps
    /\ n_snaps' = n_snaps + 1
    /\ score_queue' = Append(score_queue, snap)
    /\ recv_score' = Some(snap)
    /\ score_at' = IF score_at = None THEN Some(now) ELSE score_at
    /\ UNCHANGED <<bvars, wvars, tvars, fvars, svars, xvars, league, pc, latest_score, markets, tick_queue, tick_eos,
                   score_eos, ticks_alive, scores_alive, last_emit,
                   score_done, sb_alive, emitted, now, tick_src_open,
                   score_src_open, n_ticks, recv_markets, processed, last_tick>>

\* _consume_scores: the scoreboard source is exhausted
NFL_ScoresExhausted ==
    /\ league = "nfl" /\ pc \in NFLSuspended
    /\ score_src_open
    /\ score_src_open' = FALSE
    /\ score_eos' = TRUE
    /\ UNCHANGED <<bvars, wvars, tvars, fvars, svars, xvars, league, pc, latest_score, markets, tick_queue, tick_eos,
                   score_queue, ticks_alive, scores_alive, last_emit,
                   score_done, sb_alive, emitted, now, tick_src_open,
                   n_ticks, n_snaps, recv_score, recv_markets, processed,
                   last_tick, score_at>>

\* time passes while the merger is suspended at a yield (the consumer works
\* on the State) or, NBA, while it awaits its sources
TimePasses(d) ==
    /\ pc \in {"yield_tick", "yield_hb", "await_tick", "wait_score"}
    /\ d > 0 /\ now + d <= MaxTime
    /\ now' = now + d
    /\ UNCHANGED <<bvars, wvars, tvars, fvars, svars, xvars, league, pc, latest_score, markets, tick_queue, tick_eos,
                   score_queue, score_eos, ticks_alive, scores_alive, last_emit, score_done, sb_alive, emitted,
                   tick_src_open, score_src_open, n_ticks, n_snaps, recv_score,
                   recv_markets, processed, last_tick, score_at>>

----------------------------------------------------------------------------
(* The NBA merger: merge_nba_and_kalshi_streams *)

\* NBAMoneylineMarket is a TypedDict, so the `m` the merger holds is a plain
\* dict: reading m.team and assigning m.last_prob, m.yes_bid_prob, ... raise
\* AttributeError.
AttrAccessRaises == TRUE

\* the `else` branch "update existing snapshot", were attributes assignable
NBAUpdateMarket(m, tick) ==
    [m EXCEPT !.last_prob = ApplyField(@, tick.price_prob),
              !.yes_bid_prob = ApplyField(@, tick.yes_bid_prob),
              !.yes_ask_prob = ApplyField(@, tick.yes_ask_prob),
              !.volume = ApplyField(@, tick.volume),
              !.open_interest = ApplyField(@, tick.open_interest),
              !.status = ApplyField(@, tick.status)]

\* the update branch assigns at least one attribute
NBAAssignsAttr(tick) ==
    \/ tick.price_prob # None \/ tick.yes_bid_prob # None
    \/ tick.yes_ask_prob # None \/ tick.volume # None
    \/ tick.open_interest # None \/ tick.status # None

NBASuspended == {"await_tick", "yield_tick", "wait_score"}

\* one pass of `async for raw_tick in tick_stream`, up to the yield, the
\* `continue` or the exception that ends it; an exception runs the
\* `finally` (cancel the scoreboard worker) and leaves the generator
NBA_Tick(raw) ==
    /\ league = "nba" /\ pc = "await_tick"
    /\ tick_src_open /\ n_ticks < MaxTicks
    /\ n_ticks' = n_ticks + 1
    /\ LET tick == FromRaw(raw, now)
           mt == tick.market_ticker
           known == mt \in DOMAIN markets
           update_raises == known /\ NBAAssignsAttr(tick) /\ AttrAccessRaises
           m1 == IF known THEN NBAUpdateMarket(markets[mt], tick)
                 ELSE NBANewMarket(tick)
           tbl1 == [x \in DOMAIN markets \cup {mt} |->
                      IF x = mt THEN m1 ELSE markets[x]]
           tbl2 == [tbl1 EXCEPT ![mt] = InferSide(@, mt)]
       IN  IF mt = ""
           THEN UNCHANGED <<markets, recv_markets, emitted, pc, sb_alive,
                            processed, last_tick, score_at>>
           ELSE /\ last_tick' = Some([tick |-> tick, before |-> markets])
                /\ processed' = Append(processed,
                       [no |-> tick.no, ts |-> tick.ts_iso,
                        had_score |-> HasScore(latest_score)])
                /\ IF update_raises
                   THEN /\ pc' = "crashed"
                        /\ sb_alive' = FALSE
                        /\ UNCHANGED <<markets, recv_markets, emitted>>
                   ELSE IF ~HasScore(latest_score)
                   THEN /\ markets' = tbl1
                        /\ recv_markets' = tbl1
                        /\ UNCHANGED <<pc, sb_alive, emitted>>
                   ELSE IF AttrAccessRaises
                   THEN /\ markets' = tbl1
                        /\ recv_markets' = tbl1
                        /\ pc' = "crashed"
                        /\ sb_alive' = FALSE
                        /\ UNCHANGED emitted
                   ELSE /\ markets' = tbl2
                        /\ recv_markets' = tbl2
                        /\ emitted' = Append(emitted,
                               BuildState(latest_score[1], tbl2, tick.ts_iso,
                                          "tick", tick.no))
                        /\ pc' = "yield_tick"
                        /\ UNCHANGED sb_alive
    /\ UNCHANGED <<bvars, wvars, tvars, fvars, svars, xvars, league, latest_score, tick_queue, tick_eos, score_queue,
                   score_eos, ticks_alive, scores_alive, last_emit,
                   score_done, now, tick_src_open, score_src_open,
                   n_snaps, recv_score, score_at>>

\* the tick source is exhausted: `await score_done.wait()`
NBA_TicksExhausted ==
    /\ league = "nba" /\ pc = "await_tick"
    /\ tick_src_open
    /\ tick_src_open' = FALSE
    /\ pc' = "wait_score"
    /\ UNCHANGED <<bvars, wvars, tvars, fvars, svars, xvars, league, latest_score, markets, tick_queue, tick_eos,
                   score_queue, score_eos, ticks_alive, scores_alive, last_emit, score_done, sb_alive, emitted, now,
                   score_src_open, n_ticks, n_snaps, recv_score, recv_markets,
                   processed, last_tick, score_at>>

\* score_done is set: the `finally` runs and the generator ends
NBA_Finish ==
    /\ league = "nba" /\ pc = "wait_score"
    /\ score_done
    /\ pc' = "done"
    /\ sb_alive' = FALSE
    /\ UNCHANGED <<bvars, wvars, tvars, fvars, svars, xvars, league, latest_score, markets, tick_queue, tick_eos,
                   score_queue, score_eos, ticks_alive, scores_alive, last_emit, score_done, emitted, now, tick_src_open,
                   score_src_open, n_ticks, n_snaps, recv_score, recv_markets,
                   processed, last_tick, score_at>>

\* _scoreboard_worker, one snapshot of `async for snap in scoreboard_stream`
NBA_ScoreboardWorker(snap) ==
    /\ league = "nba" /\ pc \in NBASuspended
    /\ sb_alive /\ score_src_open /\ n_snaps < MaxSnaps
    /\ n_snaps' = n_snaps + 1
    /\ IF snap.game_id # GAME_ID
       THEN UNCHANGED <<latest_score, recv_score, score_at, score_done, sb_alive>>
       ELSE /\ latest_score' = Some(snap)
            /\ recv_score' = Some(snap)
            /\ score_at' = IF score_at = None THEN Some(now) ELSE score_at
            /\ IF snap.status = "FINAL"
               THEN score_done' = TRUE /\ sb_alive' = FALSE
               ELSE UNCHANGED <<score_done, sb_alive>>
    /\ UNCHANGED <<bvars, wvars, tvars, fvars, svars, xvars, league, pc, markets, tick_queue, tick_eos, score_queue,
                   score_eos, ticks_alive, scores_alive, last_emit,
                   emitted, now, tick_src_open, score_src_open,
                   n_ticks, recv_markets, processed, last_tick>>

\* _scoreboard_worker: the scoreboard source is exhausted
NBA_ScoresExhausted ==
    /\ league = "nba" /\ pc \in NBASuspended
    /\ sb_alive /\ score_src_open
    /\ score_src_open' = FALSE
    /\ score_done' = TRUE
    /\ sb_alive' = FALSE
    /\ UNCHANGED <<bvars, wvars, tvars, fvars, svars, xvars, league, pc, latest_score, markets, tick_queue, tick_eos,
                   score_queue, score_eos, ticks_alive, scores_alive, last_emit, emitted, now, tick_src_open, n_ticks,
                   n_snaps, recv_score, recv_markets, processed, last_tick, score_at>>

----------------------------------------------------------------------------
(* The mergers' specification *)

\* by how much the clock reading may differ after `asyncio.sleep(0.1)`
SleepSteps == {0, HEARTBEAT_SECS}
\* by how much it may differ across another suspension
ClockSteps == {HEARTBEAT_SECS}

\* What the tick source may deliver next: a tick for the unseeded market
\* with only an ask and no venue timestamp; two ticks for the seeded market
\* stamped by the venue (every field but the ask; no usable field at all);
\* a tick that carries no market id.
RawTicks ==
    { RawTick(n_ticks + 1, "A", "ask", None),
      RawTick(n_ticks + 1, "", "ask", None),
      RawTick(n_ticks + 1, "KX-HOM", "rest", Some(IF now > 0 THEN now - 1 ELSE 0)),
      RawTick(n_ticks + 1, "KX-HOM", "blank", Some(IF now > 0 THEN now - 1 ELSE 0)) }

\* The NFL merger reads neither game_id nor status of a snapshot
NFLSnapshots(n) == { s \in Snapshots(n) : s.game_id = GAME_ID /\ s.status = "LIVE" }

MergerInit ==
    /\ league \in {"nfl", "nba"}
    /\ pc = IF league = "nfl" THEN "start" ELSE "await_tick"
    /\ latest_score = None
    /\ markets = SeedMarkets(league)
    /\ tick_queue = <<>> /\ tick_eos = FALSE
    /\ score_queue = <<>> /\ score_eos = FALSE
    /\ ticks_alive = TRUE /\ scores_alive = TRUE
    /\ last_emit = 0
    /\ score_done = FALSE /\ sb_alive = (league = "nba")
    /\ emitted = <<>>
    /\ now = 0
    /\ tick_src_open = TRUE /\ score_src_open = TRUE
    /\ n_ticks = 0 /\ n_snaps = 0
    /\ recv_score = None
    /\ recv_markets = SeedMarkets(league)
    /\ processed = <<>>
    /\ last_tick = None
    /\ score_at = None

MergerNext ==
    \/ NFL_Start
    \/ NFL_ResumeTick
    \/ NFL_ResumeHeartbeat
    \/ NFL_TicksExhausted
    \/ NFL_ScoresExhausted
    \/ NBA_TicksExhausted
    \/ NBA_Finish
    \/ NBA_ScoresExhausted
    \/ \E d \in SleepSteps : NFL_Wake(d)
    \/ \E d \in ClockSteps : TimePasses(d)
    \/ \E raw \in RawTicks : NFL_ConsumeTick(raw)
    \/ \E raw \in RawTicks : NBA_Tick(raw)
    \/ \E snap \in NFLSnapshots(n_snaps + 1) : NFL_ConsumeScore(snap)
    \/ \E snap \in Snapshots(n_snaps + 1) : NBA_ScoreboardWorker(snap)

----------------------------------------------------------------------------
(* The broker: KalshiBroker                                                *)
(*                                                                         *)
(* Prices are in thousandths of a dollar (0.20 is 200), stakes, balances   *)
(* and dollars_at_risk in cents.  The arithmetic is exact.                 *)

Min(a, b) == IF a < b THEN a ELSE b
Max(a, b) == IF a > b THEN a ELSE b

\* Python truthiness of an Optional number: None and 0 are false
Truthy(x) == x # None /\ x[1] # 0

\* a faulty variant that prices every order as an entry
GetLimitPriceAskFirst(m, action) ==
    IF m = None THEN None
    ELSE LET q == m[1] IN
         IF Truthy(q.yes_ask_prob) THEN q.yes_ask_prob
         ELSE IF Truthy(q.price) THEN q.price
         ELSE IF Truthy(q.yes_bid_prob) THEN q.yes_bid_prob
         ELSE None

\* _get_limit_price, for the market's entry m of state["markets"] (None when
\* the State holds no such market)
GetLimitPrice(m, action) ==
    IF m = None THEN None
    ELSE LET q == m[1] IN
         IF action = "open"
         THEN IF Truthy(q.yes_ask_prob) THEN q.yes_ask_prob
              ELSE IF Truthy(q.price) THEN q.price
              ELSE IF Truthy(q.yes_bid_prob) THEN q.yes_bid_prob
              ELSE None
         ELSE IF Truthy(q.yes_bid_prob) THEN q.yes_bid_prob
              ELSE IF Truthy(q.price) THEN q.price
              ELSE None

\* int(round(limit_price * 100.0)): round half to even
RoundCents(p) ==
    LET q == p \div 10
        r == p % 10
    IN  IF r < 5 THEN q
        ELSE IF r > 5 THEN q + 1
        ELSE IF q % 2 = 0 THEN q ELSE q + 1

\* `not limit_price or limit_price <= 0.0 or limit_price > 0.99`
InvalidPrice(lp) == ~Truthy(lp) \/ lp[1] <= 0 \/ lp[1] > 990

\* a faulty variant without the cap
OverCapNever(notional) == FALSE

\* `notional > MAX_ORDER_VALUE_SAFETY_CAP`, notional in cents
OverCap(notional) == notional > MAX_ORDER_VALUE_SAFETY_CAP

\* `if not pos or pos["contracts"] <= 0`
NoPosition(pos, mid) == mid \notin DOMAIN pos \/ pos[mid].contracts <= 0

\* a faulty variant that sizes every intent as an entry
ClosingNever(intent) == FALSE

\* `if intent.action == "close":`
Closing(intent) == intent.action = "close"

\* The (stake, price) pairs, among those the model executes, for which the
\* binary floating point quotient stake / limit_price falls just below the
\* exact, whole quotient: 7.0 / 0.07 is 99.99999999999999
FloatShort == {<<700, 70>>}

\* `int(stake / limit_price)`: stake in cents, price in thousandths
FloatDivFloor(stake, lp) ==
    IF <<stake, lp>> \in FloatShort
    THEN (stake * 10) \div lp - 1
    ELSE (stake * 10) \div lp

\* `limit_price = getattr(intent, 'price', None)`, else _get_limit_price
EffectivePrice(intent, m) ==
    IF intent.price # None THEN intent.price
    ELSE GetLimitPrice(m, intent.action)

\* _build_order_payload: the payload, or the error it raises
BuildOrderPayload(intent, m, pos) ==
    LET lp == EffectivePrice(intent, m)
    IN  IF InvalidPrice(lp) THEN [ok |-> FALSE, error |-> "invalid_price"]
        ELSE
        LET price_cents == Max(1, Min(99, RoundCents(lp[1])))
            closing == Closing(intent)
        IN  IF closing /\ NoPosition(pos, intent.market_id)
            THEN [ok |-> FALSE, error |-> "no_position"]
            ELSE
            LET contracts ==
                    IF closing THEN pos[intent.market_id].contracts
                    ELSE Max(1, Min(FloatDivFloor(intent.position_size, lp[1]),
                                    MAX_CONTRACTS_PER_ORDER))
                notional == contracts * price_cents
            IN  IF OverCap(notional)
                THEN [ok |-> FALSE, error |-> "safety_cap",
                      count |-> contracts, price_cents |-> price_cents]
                ELSE [ok |-> TRUE, error |-> "",
                      market_ticker |-> intent.market_id,
                      action |-> IF closing THEN "sell" ELSE "buy",
                      price_cents |-> price_cents,
                      count |-> contracts]

\* a faulty variant that books nothing
UpdatePositionsLocalNothing(pos, intent, executed_contracts, price_cents) ==
    pos

\* _update_positions_local
UpdatePositionsLocal(pos, intent, executed_contracts, price_cents) ==
    LET mid == intent.market_id IN
    IF intent.action = "open"
    THEN LET old == IF mid \in DOMAIN pos THEN pos[mid]
                    ELSE [dollars_at_risk |-> 0, contracts |-> 0]
             new == [dollars_at_risk |->
                         old.dollars_at_risk + executed_contracts * price_cents,
                     contracts |-> old.contracts + executed_contracts]
         IN  [x \in DOMAIN pos \cup {mid} |-> IF x = mid THEN new ELSE pos[x]]
    ELSE IF intent.action = "close"
    THEN [x \in DOMAIN pos \ {mid} |-> pos[x]]
    ELSE pos

\* the balance check gates live buys only ("BALANCE CHECK (Live Buy Only)")
NeedsBalanceCheck(dry, payload) == ~dry /\ payload.action = "buy"

\* a faulty variant that accepts every balance
InsufficientFundsNever(balance_cents, cost_cents) == FALSE

\* `balance_cents < (cost_cents + 500)`
InsufficientFunds(balance_cents, cost_cents) ==
    balance_cents < cost_cents + BALANCE_BUFFER

\* a faulty variant that books the fill before the venue has answered
PositionsAfterSubmitEager(pos, filled, placed) == filled

\* `resp = await _submit()` and then `self._update_positions_local(...)`:
\* the fill is booked only when place_order has returned
PositionsAfterSubmit(pos, filled, placed) == IF placed THEN filled ELSE pos

\* a faulty variant that lets an exception of the submission escape
HandledBuildAndBalance(stage) == stage \in {"build", "balance"}

\* the three `except Exception` clauses of execute: around the payload,
\* around the balance check, around the submission
Handled(stage) == stage \in {"build", "balance", "submit"}

\* KalshiBroker.execute.  bal is the venue's answer to get_balance (None:
\* the call raises), placed whether place_order returns (FALSE: it raises).
\* The result records what the call did.
ExecuteResult(intent, m, bal, placed) ==
    LET payload == BuildOrderPayload(intent, m, positions)
        base == [intent |-> intent, quote |-> m,
                 limit_price |-> EffectivePrice(intent, m),
                 payload |-> payload,
                 balance_fetched |-> FALSE, balance |-> None,
                 submitted |-> FALSE,
                 ok |-> FALSE, error |-> payload.error,
                 raised |-> FALSE,
                 positions |-> positions]
    IN  IF ~payload.ok THEN [base EXCEPT !.raised = ~Handled("build")]
        ELSE
        LET checked == NeedsBalanceCheck(dry_run, payload)
            b1 == [base EXCEPT !.balance_fetched = checked,
                               !.balance = IF checked THEN bal ELSE None]
            filled == UpdatePositionsLocal(positions, intent, payload.count,
                                           payload.price_cents)
        IN  IF checked /\ bal = None
            THEN [b1 EXCEPT !.error = "balance_check_failed",
                            !.raised = ~Handled("balance")]
            ELSE IF checked
                    /\ InsufficientFunds(bal[1], payload.count * payload.price_cents)
            THEN [b1 EXCEPT !.error = "insufficient_funds"]
            ELSE IF dry_run
            THEN [b1 EXCEPT !.ok = TRUE, !.positions = filled]
            ELSE [b1 EXCEPT !.submitted = TRUE, !.ok = placed,
                            !.error = IF placed THEN "" ELSE "order_failed",
                            !.raised = ~placed /\ ~Handled("submit"),
                            !.positions =
                                PositionsAfterSubmit(positions, filled, placed)]

Execute(intent, m, bal, placed) ==
    /\ n_exec < MaxExec
    /\ LET r == ExecuteResult(intent, m, bal, placed)
       IN  /\ positions' = r.positions
           /\ last_exec' = Some([r EXCEPT !.positions = positions])
           /\ venue_calls' =
                  [balance |-> venue_calls.balance
                                 + (IF r.balance_fetched THEN 1 ELSE 0),
                   orders |-> venue_calls.orders
                                 + (IF r.submitted THEN 1 ELSE 0)]
    /\ n_exec' = n_exec + 1
    /\ UNCHANGED <<dry_run, mvars, wvars, tvars, fvars, svars, xvars>>

\* The stakes a strategy may ask for, each with the price left to the
\* broker or given: $25 and $1200 at the broker's price, $7 and $1200 at 0.07
Stakes ==
    {<<2500, None>>, <<120000, None>>, <<700, Some(70)>>, <<120000, Some(70)>>}

Intents ==
    { [market_id |-> mid, action |-> a, position_size |-> sp[1],
       price |-> sp[2]] :
          mid \in MarketIds, a \in {"open", "close", "reduce"}, sp \in Stakes }

\* The market's entry in the State the intent is executed against: a full
\* book, a zero ask over a bid of 0.60, a last trade only, an ask only and
\* out of the venue's bounds (0.995), or no entry
Quotes ==
    { Some([yes_ask_prob |-> Some(200), yes_bid_prob |-> Some(180),
            price |-> Some(190)]),
      Some([yes_ask_prob |-> Some(0), yes_bid_prob |-> Some(600),
            price |-> None]),
      Some([yes_ask_prob |-> None, yes_bid_prob |-> None,
            price |-> Some(190)]),
      Some([yes_ask_prob |-> Some(995), yes_bid_prob |-> None,
            price |-> None]),
      None }

\* The venue's balance (cents), or None when the lookup fails
Balances == {None, Some(3000), Some(10000000)}

BrokerInit ==
    /\ dry_run \in BOOLEAN
    /\ positions = <<>>
    /\ venue_calls = [balance |-> 0, orders |-> 0]
    /\ n_exec = 0
    /\ last_exec = None

\* What the venue would answer.  A dry-run broker is run against a venue
\* that cannot be reached: every call to it would fail.
VenueAnswers ==
    IF dry_run THEN {<<None, FALSE>>}
    ELSE (Balances \X {TRUE}) \cup {<<Some(10000000), FALSE>>}

BrokerNext ==
    \E intent \in Intents, m \in Quotes, v \in VenueAnswers :
        Execute(intent, m, v[1], v[2])

----------------------------------------------------------------------------
(* The game worker: run_worker                                             *)
(*                                                                         *)
(* The merged stream is seen from its consumer: it delivers a State, ends, *)
(* or raises.  A strategy's call on a State raises, or returns no intent   *)
(* or one; broker.execute returns a result (it does not raise).            *)

Strategies == 1..NStrategies

\* what strat.on_state(state, portfolio) does
StrategyOutcomes == {"raise", "none", "one"}

\* what broker.execute returns for an intent: a fill, a failed result, or a
\* live fill whose venue response log_order_attempt cannot parse
ExecOutcomes == {"ok", "failed", "unloggable"}

\* the intents a strategy returned
IntentsOf(i, outcome) ==
    IF outcome = "one" THEN <<[strategy |-> i, strategy_name |-> ""]>> ELSE <<>>

\* `setattr(intent, 'strategy_name', strat.__class__.__name__)`
Named(intents, i) ==
    [j \in 1..Len(intents) |-> [intents[j] EXCEPT !.strategy_name = "S"]]

RECURSIVE CompositeFrom(_, _, _)
\* the loop of CompositeStrategy.on_state from strategy i on: a strategy that
\* raises ends the call, and all_intents is never returned
CompositeFrom(outs, i, all_intents) ==
    IF i > NStrategies THEN [raised |-> FALSE, intents |-> all_intents]
    ELSE IF outs[i] = "raise" THEN [raised |-> TRUE, intents |-> <<>>]
    ELSE CompositeFrom(outs, i + 1,
                       all_intents \o Named(IntentsOf(i, outs[i]), i))

\* CompositeStrategy.on_state
CompositeOnState(outs) == CompositeFrom(outs, 1, <<>>)

\* TradeLogger.log_order_attempt raises when _extract_execution_details
\* meets a venue response it cannot divide; a failed result has no response
LogRaises(result) == result = "unloggable"

RECURSIVE ExecuteIntents(_, _, _, _)
\* `for intent in intents:` execute, then log; an exception ends the loop
ExecuteIntents(intents, results, i, done) ==
    IF i > Len(intents) THEN [raised |-> FALSE, executed |-> done]
    ELSE LET d == Append(done, [intent |-> intents[i],
                                ok |-> results[i] # "failed"])
         IN  IF LogRaises(results[i]) THEN [raised |-> TRUE, executed |-> d]
             ELSE ExecuteIntents(intents, results, i + 1, d)

\* the body of the inner try: decide, then execute every intent
TradeOnState(outs, results) ==
    LET c == CompositeOnState(outs)
        x == ExecuteIntents(c.intents, results, 1, <<>>)
    IN  [strategy_raised |-> c.raised,
         forwarded |-> c.intents,
         executed |-> x.executed,
         raised |-> c.raised \/ x.raised]

\* a faulty variant without the handler around the trading step
WorkerHandledLoopOnly(stage) == stage \in {"loop"}

\* the `except Exception` clauses of run_worker: around the loop ("Worker
\* crashed") and, inside it, around the trading step ("Error in trading
\* loop"); nothing handles an exception raised before the loop
WorkerHandled(stage) == stage \in {"loop", "trading"}

\* `time.time() - last_rest_check > 60`
RestCheckDue(clock, last_rest_check) ==
    (clock - last_rest_check) * ClockStep > REST_CHECK_SECS

\* TERMINAL_STATUSES of the NBA and of the NFL worker
TerminalStatuses(lg) ==
    IF lg = "nfl" THEN {"finalized", "settled", "closed"}
    ELSE {"finalized", "settled", "closed", "final"}

\* market_tickers, in the order the check walks them
Tickers == <<"KX-HOM", "A">>

\* what get_market answers for a ticker: a status, or "error" when the call
\* raises
MarketAnswers == {"settled", "active", "error"}

\* no check was made: nothing was asked
Unasked == [i \in DOMAIN Tickers |-> "active"]

RECURSIVE CheckFrom(_, _, _)
\* the loop of _check_markets_terminal from ticker i on: the first ticker
\* that is not terminal, or whose lookup raises, answers False
CheckFrom(lg, answers, i) ==
    IF i > Len(Tickers) THEN TRUE
    ELSE IF answers[i] = "error" THEN FALSE
    ELSE IF answers[i] \notin TerminalStatuses(lg) THEN FALSE
    ELSE CheckFrom(lg, answers, i + 1)

\* _check_markets_terminal
CheckMarketsTerminal(lg, answers) == CheckFrom(lg, answers, 1)

\* the NFL worker leaves on a State whose status holds "Final"
LeavesOnFinal(lg, final) == lg = "nfl" /\ final

\* what the loop recorded about a State it has taken
Taken(k, appended, checked, traded, outs, results, t, after_error, phase) ==
    [k |-> k, appended |-> appended, checked |-> checked, traded |-> traded,
     outs |-> outs, results |-> results,
     strategy_raised |-> t.strategy_raised, forwarded |-> t.forwarded,
     executed |-> t.executed,
     error |-> traded /\ (t.raised
                          \/ \E i \in 1..Len(t.executed) : ~t.executed[i].ok),
     after_error |-> after_error,
     phase_after |-> phase]

NoTrade ==
    [strategy_raised |-> FALSE, forwarded |-> <<>>, executed |-> <<>>,
     raised |-> FALSE]

NoOuts == [i \in Strategies |-> "none"]

\* leaving the loop: the `finally` calls state_writer.flush(), and an
\* exception the outer handler has logged goes no further
\* Whether the merger has cancelled and awaited its background tasks when
\* the worker's loop is left.  The NFL merger does so after its `while`
\* loop, the NBA merger in a `finally`; a generator the worker leaves
\* suspended at a yield (a `break`, an exception in the loop's body) runs
\* neither, for the worker does not close it.
MergerCleanedUp(lg, why) ==
    \/ why = "exhausted"
    \/ why = "crashed_stream" /\ lg = "nba"

WorkerLeaves(why, stage) ==
    /\ w_phase' = "exited"
    /\ w_exit' = why
    /\ w_bg' = IF MergerCleanedUp(league, why) THEN "cancelled" ELSE w_bg
    /\ w_flushed' = TRUE
    /\ w_raised' = (stage # "" /\ ~WorkerHandled(stage))

\* run_worker before the loop: configuration, the pre-game sleep, clients,
\* broker, strategies, state writer, streams.  A step that raises ends
\* run_worker there: no config file, a bad date, or a call its callee's
\* signature does not take (merge_nba_and_kalshi_streams(event_ticker=...),
\* TradeLogger(sport=...), PredictEngineStateWriter(output_dir=...)).
\* "ready" is a worker whose calls bind: the loop is modelled for it.
WorkerSetup(outcome) ==
    /\ w_phase = "waiting"
    /\ IF outcome = "ready"
       THEN /\ w_phase' = "active"
            /\ w_last_rest_check' = w_clock
            /\ w_bg' = "running"
            /\ UNCHANGED <<w_exit, w_raised>>
       ELSE /\ w_phase' = "exited"
            /\ w_exit' = "setup_error"
            /\ w_raised' = ~WorkerHandled("setup")
            /\ UNCHANGED <<w_last_rest_check, w_bg>>
    /\ UNCHANGED <<w_state_count, w_recorded, w_flushed, w_clock, w_lost,
                   w_checks, w_check, w_last, mvars, bvars, tvars, fvars, svars, xvars>>

\* the clock moves while the worker sleeps or waits for the stream
WorkerTimePasses ==
    /\ w_phase \in {"waiting", "active"}
    /\ w_clock < MaxClock
    /\ w_clock' = w_clock + 1
    /\ UNCHANGED <<w_phase, w_state_count, w_recorded, w_last_rest_check,
                   w_flushed, w_raised, w_bg, w_exit, w_lost, w_checks,
                   w_check, w_last, mvars, bvars, tvars, fvars, svars, xvars>>

\* one turn of `async for state in merged_stream:`.  in.appended: whether
\* append_state returns; in.final: the State's NFL status; in.answers: the
\* venue's answers to the settlement check; in.outs: what each strategy does;
\* in.results: what execute returns for each intent.
WorkerState(in) ==
    /\ w_phase = "active"
    /\ w_state_count < MaxStates
    /\ w_state_count' = w_state_count + 1
    /\ LET appended == in.appended
           final == in.final
           is_done == CheckMarketsTerminal(league, in.answers)
           outs == in.outs
           results == in.results
           k == w_state_count + 1
           after_error == w_last # None /\ w_last[1].error
           due == RestCheckDue(w_clock, w_last_rest_check)
       IN  IF ~appended
           THEN /\ w_lost' = TRUE
                /\ WorkerLeaves("crashed_append", "loop")
                /\ w_last' = Some(Taken(k, FALSE, FALSE, FALSE, outs, results,
                                        NoTrade, after_error, "exited"))
                /\ UNCHANGED <<w_recorded, w_last_rest_check, w_checks,
                               w_check>>
           ELSE
           /\ w_recorded' = w_recorded + 1
           /\ UNCHANGED w_lost
           /\ IF LeavesOnFinal(league, final)
              THEN /\ WorkerLeaves("final", "")
                   /\ w_last' = Some(Taken(k, TRUE, FALSE, FALSE, outs,
                                           results, NoTrade, after_error,
                                           "exited"))
                   /\ UNCHANGED <<w_last_rest_check, w_checks, w_check>>
              ELSE
              /\ w_checks' = w_checks + (IF due THEN 1 ELSE 0)
              /\ w_check' = IF due THEN Some(in.answers) ELSE w_check
              /\ IF due /\ is_done
                 THEN /\ WorkerLeaves("terminal", "")
                      /\ w_last' = Some(Taken(k, TRUE, TRUE, FALSE, outs,
                                              results, NoTrade, after_error,
                                              "exited"))
                      /\ UNCHANGED w_last_rest_check
                 ELSE
                 /\ w_last_rest_check' =
                        IF due THEN w_clock ELSE w_last_rest_check
                 /\ LET t == TradeOnState(outs, results)
                    IN  IF t.raised /\ ~WorkerHandled("trading")
                        THEN /\ WorkerLeaves("crashed_trading", "loop")
                             /\ w_last' = Some(Taken(k, TRUE, due, TRUE, outs,
                                                     results, t, after_error,
                                                     "exited"))
                        ELSE /\ w_last' = Some(Taken(k, TRUE, due, TRUE, outs,
                                                     results, t, after_error,
                                                     "active"))
                             /\ UNCHANGED <<w_phase, w_exit, w_flushed,
                                            w_raised, w_bg>>
    /\ UNCHANGED <<w_clock, mvars, bvars, tvars, fvars, svars, xvars>>

\* the stream is exhausted: the loop ends
WorkerStreamEnds ==
    /\ w_phase = "active"
    /\ WorkerLeaves("exhausted", "")
    /\ UNCHANGED <<w_state_count, w_recorded, w_last_rest_check, w_clock,
                   w_lost, w_checks, w_check, w_last, mvars, bvars, tvars, fvars, svars, xvars>>

\* the stream raises instead of delivering: the merger or a source failed
WorkerStreamRaises ==
    /\ w_phase = "active"
    /\ WorkerLeaves("crashed_stream", "loop")
    /\ UNCHANGED <<w_state_count, w_recorded, w_last_rest_check, w_clock,
                   w_lost, w_checks, w_check, w_last, mvars, bvars, tvars, fvars, svars, xvars>>

\* What the strategies and the broker may do on a State; a result is drawn
\* for each intent the composite forwards
TradeInputs ==
    { tr \in [outs : [Strategies -> StrategyOutcomes],
              results : [Strategies -> ExecOutcomes]] :
        \A i \in Strategies :
            i > Len(CompositeOnState(tr.outs).intents) => tr.results[i] = "ok" }

NoResults == [i \in Strategies |-> "ok"]

Turn(appended, final, answers, outs, results) ==
    [appended |-> appended, final |-> final, answers |-> answers,
     outs |-> outs, results |-> results]

\* the venue's answers to a check, by what the check makes of them
\* (a ticker after the first that is not terminal is not asked about)
AnswersThat(lg, done) ==
    { a \in [DOMAIN Tickers -> MarketAnswers] :
          /\ CheckMarketsTerminal(lg, a) = done
          /\ \A i, j \in DOMAIN Tickers :
                 (j < i /\ a[j] \notin TerminalStatuses(lg)) =>
                     a[i] = Unasked[i] }

\* The inputs of a turn: append_state fails; or the State is final (NFL); or
\* the settlement check is due and answers done; or the turn goes on to
\* trade, after a check that answered not done when one was due
StateInputs ==
    {Turn(FALSE, FALSE, Unasked, NoOuts, NoResults)}
    \cup (IF league = "nfl"
          THEN {Turn(TRUE, TRUE, Unasked, NoOuts, NoResults)} ELSE {})
    \cup (IF RestCheckDue(w_clock, w_last_rest_check)
          THEN {Turn(TRUE, FALSE, a, NoOuts, NoResults) :
                    a \in AnswersThat(league, TRUE)}
          ELSE {})
    \cup {Turn(TRUE, FALSE, a, tr.outs, tr.results) :
              tr \in TradeInputs,
              a \in IF RestCheckDue(w_clock, w_last_rest_check)
                    THEN AnswersThat(league, FALSE) ELSE {Unasked}}

WorkerInit ==
    /\ w_phase = "waiting"
    /\ w_state_count = 0
    /\ w_recorded = 0
    /\ w_last_rest_check = 0
    /\ w_flushed = FALSE
    /\ w_raised = FALSE
    /\ w_bg = "none"
    /\ w_clock = 0
    /\ w_exit = ""
    /\ w_lost = FALSE
    /\ w_checks = 0
    /\ w_check = None
    /\ w_last = None

WorkerNext ==
    \/ WorkerTimePasses
    \/ WorkerStreamEnds
    \/ WorkerStreamRaises
    \/ \E outcome \in {"ready", "raises"} : WorkerSetup(outcome)
    \/ \E in \in StateInputs : WorkerState(in)

----------------------------------------------------------------------------
(* The tick streams: ticker_stream and kalshi_ticker_stream                *)
(*                                                                         *)
(* A step runs the generator from one await to the next; a yield and the   *)
(* consumer's return to the generator are part of the step that yields.    *)

\* the instruments the stream was started with
Subscribed == {"A"}

\* What ws.recv() hands over.  decodes: json.loads returns; is_object: what
\* it returns is a dict; type: its "type"; payload: what its "msg" is;
\* market: the payload's market_ticker; priced: it carries price fields.
Frame(decodes, is_object, type, payload, market, priced) ==
    [decodes |-> decodes, is_object |-> is_object, type |-> type,
     payload |-> payload, market |-> market, priced |-> priced]

Frames ==
    { Frame(TRUE, TRUE, "ticker", "dict", "A", TRUE),
      Frame(TRUE, TRUE, "ticker", "dict", "A", FALSE),
      Frame(TRUE, TRUE, "ticker", "dict", "ZZ", TRUE),
      Frame(TRUE, TRUE, "ticker", "text", "none", FALSE),
      Frame(TRUE, TRUE, "subscribed", "dict", "none", FALSE),
      Frame(TRUE, TRUE, "fill", "dict", "A", TRUE),
      Frame(TRUE, FALSE, "none", "none", "none", FALSE),
      Frame(FALSE, FALSE, "none", "none", "none", FALSE) }

\* `if mkt not in market_tickers: continue` (ticker_stream only)
Accepted(impl, frame) ==
    impl = "kalshi_ticker_stream" \/ frame.market \in Subscribed

\* What the body of the read loop does with a frame: "drop" (continue),
\* "raise" (an exception that leaves the loop) or "yield"
HandleFrame(impl, frame) ==
    IF ~frame.decodes THEN "drop"
    ELSE IF ~frame.is_object THEN "raise"
    ELSE IF frame.type # "ticker" THEN "drop"
    ELSE IF impl = "ticker_stream" /\ frame.payload = "text" THEN "raise"
    ELSE IF ~Accepted(impl, frame) THEN "drop"
    ELSE "yield"

\* a faulty variant that reconnects on every read that times out
IdleTooLongAlways(idle) == TRUE

\* `if idle > INACTIVITY_RECONNECT_SECS:`
IdleTooLong(idle) == idle > INACTIVITY_RECONNECT_SECS

\* a faulty variant that reconnects at once
BackoffNone == BACKOFF_SECS - BACKOFF_SECS

\* the sleep of the `except Exception` clause
Backoff == BACKOFF_SECS

\* what the stream did last
Did(event, frame, idle, outcome) ==
    Some([event |-> event, frame |-> frame, idle |-> idle,
          outcome |-> outcome, attempts |-> t_attempts, at |-> t_clock,
          subscribed |-> t_subscribed, yielded |-> t_yielded,
          ticker_ts |-> t_last_ticker_ts])

NoFrame == Frame(FALSE, FALSE, "none", "none", "none", FALSE)

\* The top of `while True:`: build the headers, connect, subscribe.  The
\* headers are built outside the try: an exception there leaves the
\* generator.  They fail when the key id or the private key is not there,
\* which shows at the first round (the key is loaded once).  An exception
\* of connect or send is caught.
TickConnect(outcome) ==
    /\ t_pc = "start"
    /\ t_attempts < MaxAttempts
    /\ outcome = "headers_raise" => t_attempts = 0
    /\ IF outcome = "headers_raise"
       THEN /\ t_pc' = "ended"
            /\ UNCHANGED <<t_attempts, t_subscribed, t_failures,
                           t_last_ticker_ts>>
       ELSE /\ t_attempts' = t_attempts + 1
            /\ IF outcome = "connect_raises"
               THEN /\ t_pc' = "backoff"
                    /\ t_failures' = t_failures + 1
                    /\ UNCHANGED <<t_subscribed, t_last_ticker_ts>>
               ELSE IF outcome = "send_raises"
               THEN /\ t_pc' = "backoff"
                    /\ t_failures' = t_failures + 1
                    /\ UNCHANGED <<t_subscribed, t_last_ticker_ts>>
               ELSE /\ t_pc' = "reading"
                    /\ t_subscribed' = t_subscribed + 1
                    /\ t_last_ticker_ts' = t_clock
                    /\ UNCHANGED t_failures
    /\ t_last' = Did("connect", NoFrame, 0, outcome)
    /\ UNCHANGED <<t_impl, t_clock, t_backoffs, t_idle_breaks, t_reads,
                   t_yielded, mvars, bvars, wvars, fvars, svars, xvars>>

\* ws.recv() returns a frame, d seconds after it was called
TickRecv(frame, d) ==
    /\ t_pc = "reading"
    /\ t_reads < MaxReads
    /\ t_reads' = t_reads + 1
    /\ t_clock' = t_clock + d
    /\ LET h == HandleFrame(t_impl, frame)
       IN  /\ t_last' = Did("frame", frame, 0, h)
           /\ t_pc' = IF h = "raise" THEN "backoff" ELSE "reading"
           /\ t_failures' = t_failures + (IF h = "raise" THEN 1 ELSE 0)
           /\ t_yielded' = t_yielded + (IF h = "yield" THEN 1 ELSE 0)
           /\ t_last_ticker_ts' =
                  IF h = "yield" THEN t_clock' ELSE t_last_ticker_ts
    /\ UNCHANGED <<t_impl, t_attempts, t_subscribed, t_backoffs,
                   t_idle_breaks, mvars, bvars, wvars, fvars, svars, xvars>>

\* ws.recv() raises: the connection dropped
TickRecvRaises ==
    /\ t_pc = "reading"
    /\ t_reads < MaxReads
    /\ t_reads' = t_reads + 1
    /\ t_pc' = "backoff"
    /\ t_failures' = t_failures + 1
    /\ t_last' = Did("recv_raises", NoFrame, 0, "raise")
    /\ UNCHANGED <<t_impl, t_clock, t_last_ticker_ts, t_attempts,
                   t_subscribed, t_backoffs, t_idle_breaks, t_yielded,
                   mvars, bvars, wvars, fvars, svars, xvars>>

\* wait_for times out: `break` out of the read loop when idle too long,
\* which closes the socket and goes to the top at once; `continue` otherwise
TickTimeout ==
    /\ t_pc = "reading"
    /\ t_reads < MaxReads
    /\ t_reads' = t_reads + 1
    /\ t_clock' = t_clock + READ_TIMEOUT_SECS
    /\ LET idle == t_clock' - t_last_ticker_ts
       IN  IF IdleTooLong(idle)
           THEN /\ t_pc' = "start"
                /\ t_idle_breaks' = t_idle_breaks + 1
                /\ t_last' = Did("timeout", NoFrame, idle, "reconnect")
           ELSE /\ t_last' = Did("timeout", NoFrame, idle, "continue")
                /\ UNCHANGED <<t_pc, t_idle_breaks>>
    /\ UNCHANGED <<t_impl, t_last_ticker_ts, t_attempts, t_subscribed,
                   t_failures, t_backoffs, t_yielded, mvars, bvars, wvars, fvars, svars, xvars>>

\* the backoff sleep returns: `continue` to the top
TickBackoffDone ==
    /\ t_pc = "backoff"
    /\ t_pc' = "start"
    /\ t_clock' = t_clock + Backoff
    /\ t_backoffs' = t_backoffs + 1
    /\ t_last' = Did("backoff", NoFrame, 0, "continue")
    /\ UNCHANGED <<t_impl, t_last_ticker_ts, t_attempts, t_subscribed,
                   t_failures, t_idle_breaks, t_reads, t_yielded,
                   mvars, bvars, wvars, fvars, svars, xvars>>

\* the caller cancels the stream: CancelledError and GeneratorExit are not
\* caught by `except Exception`
TickCancel ==
    /\ t_pc \in {"start", "reading", "backoff"}
    /\ t_pc' = "cancelled"
    /\ UNCHANGED <<t_impl, t_last_ticker_ts, t_clock, t_attempts,
                   t_subscribed, t_failures, t_backoffs, t_idle_breaks,
                   t_reads, t_yielded, t_last, mvars, bvars, wvars, fvars, svars, xvars>>

\* a stream that has not been started
TickIdle ==
    /\ t_impl = "ticker_stream"
    /\ t_pc = "start"
    /\ t_last_ticker_ts = 0
    /\ t_clock = 0
    /\ t_attempts = 0
    /\ t_subscribed = 0
    /\ t_failures = 0
    /\ t_backoffs = 0
    /\ t_idle_breaks = 0
    /\ t_reads = 0
    /\ t_yielded = 0
    /\ t_last = None

\* either stream, started with a non-empty instrument set
TickInit ==
    /\ t_impl \in {"ticker_stream", "kalshi_ticker_stream"}
    /\ t_pc = "start"
    /\ t_last_ticker_ts = 0
    /\ t_clock = 0
    /\ t_attempts = 0
    /\ t_subscribed = 0
    /\ t_failures = 0
    /\ t_backoffs = 0
    /\ t_idle_breaks = 0
    /\ t_reads = 0
    /\ t_yielded = 0
    /\ t_last = None

TickNext ==
    \/ TickRecvRaises
    \/ TickTimeout
    \/ TickBackoffDone
    \/ TickCancel
    \/ \E outcome \in {"headers_raise", "connect_raises", "send_raises", "ok"} :
           TickConnect(outcome)
    \/ \E frame \in Frames, d \in {0, 20} : TickRecv(frame, d)

----------------------------------------------------------------------------
(* The state log: PredictEngineStateWriter and _load_states_for_game       *)
(*                                                                         *)
(* The file is a sequence of tokens: "[", "]", ",", "\n" (one byte each)   *)
(* and, for a State s, the three tokens of json.dumps(s): "{", its text,   *)
(* "}".                                                                    *)

LogStates == {"s1", "s2"}

\* json.dumps(state): one line, no newline in it
Dumps(s) == <<"{", s, "}">>

\* the length in bytes of a file, as far as `file_len <= 2` depends on it:
\* the text of a State is longer than a byte
FileLen(file) ==
    IF \E i \in 1..Len(file) : file[i] \in LogStates THEN Len(file) + 2
    ELSE Len(file)

\* `f.seek(-k, 2); f.write(w)`: the first n tokens of w reach the file
\* at position Len(file) - k, over what was there
WriteAt(file, k, w, n) ==
    LET at == Len(file) - k
    IN  [i \in 1..Max(Len(file), at + n) |->
            IF i <= at THEN file[i]
            ELSE IF i <= at + n THEN w[i - at]
            ELSE file[i]]

\* where append_state seeks to, back from the end, for a file that is not
\* empty
SeekBack(file) ==
    IF FileLen(file) <= 2 THEN 1
    ELSE IF file[Len(file) - 1] = "\n" /\ file[Len(file)] = "]" THEN 2
    ELSE IF file[Len(file)] = "]" THEN 1
    ELSE 0

\* a faulty variant that never writes the separating comma
EntryNoComma(file, s) == <<"\n">> \o Dumps(s) \o <<"\n", "]">>

\* what append_state writes there
Entry(file, s) ==
    IF FileLen(file) <= 2 THEN <<"\n">> \o Dumps(s) \o <<"\n", "]">>
    ELSE <<",", "\n">> \o Dumps(s) \o <<"\n", "]">>

\* `f.seek(-1, 2)` on an empty file raises OSError
AppendRaises(file) == Len(file) = 0

\* the file after append_state(s) has returned
AppendState(file, s) ==
    WriteAt(file, SeekBack(file), Entry(file, s), Len(Entry(file, s)))

\* json.load, then the `isinstance(data, list)` test, on the file's tokens:
\* the States of the array, None when the text is no JSON array.  White
\* space between the tokens of a JSON text means nothing.
RECURSIVE ParseItems(_)
ParseItems(ts) ==
    IF Len(ts) < 3 \/ ts[1] # "{" \/ ts[2] \notin LogStates \/ ts[3] # "}"
    THEN None
    ELSE IF Len(ts) = 3 THEN Some(<<ts[2]>>)
    ELSE IF ts[4] # "," THEN None
    ELSE LET rest == ParseItems(SubSeq(ts, 5, Len(ts)))
         IN  IF rest = None THEN None ELSE Some(<<ts[2]>> \o rest[1])

NotSpace(t) == t # "\n"

JsonLoadList(file) ==
    LET ts == SelectSeq(file, NotSpace)
    IN  IF Len(ts) < 2 \/ ts[1] # "[" \/ ts[Len(ts)] # "]" THEN None
        ELSE IF Len(ts) = 2 THEN Some(<<>>)
        ELSE ParseItems(SubSeq(ts, 2, Len(ts) - 1))

\* _load_states_for_game: [] for a missing file, None when it raises
LoadStatesForGame(file) ==
    IF file = None THEN Some(<<>>) ELSE JsonLoadList(file[1])

\* PredictEngineStateWriter(game_id), at the start of a worker: a missing
\* file is created as "[]", an existing one is kept
WriterOpen ==
    /\ f_phase \in {"none", "finished", "crashed"}
    /\ f_runs < MaxRuns
    /\ f_runs' = f_runs + 1
    /\ f_phase' = "open"
    /\ f_count' = 0
    /\ f_file' = IF f_file = None THEN Some(<<"[", "]">>) ELSE f_file
    /\ UNCHANGED <<f_appended, f_evaluated, f_torn, mvars, bvars, wvars,
                   tvars, svars, xvars>>

\* `state_writer.append_state(state)` of the worker's loop, and, when it
\* has returned, the State going on to the strategies; an append that
\* raises ends the loop
WriterAppend(s) ==
    /\ f_phase = "open"
    /\ Len(f_appended) < MaxAppends
    /\ IF AppendRaises(f_file[1])
       THEN /\ f_phase' = "crashed"
            /\ UNCHANGED <<f_file, f_count, f_appended, f_evaluated>>
       ELSE /\ f_file' = Some(AppendState(f_file[1], s))
            /\ f_count' = f_count + 1
            /\ f_appended' = Append(f_appended, s)
            /\ f_evaluated' = Append(f_evaluated, s)
            /\ UNCHANGED f_phase
    /\ UNCHANGED <<f_runs, f_torn, mvars, bvars, wvars, tvars, svars, xvars>>

\* the process dies inside append_state(s) while the entry is being
\* written: the first n tokens of it have reached the file
WriterCrash(s, n) ==
    /\ f_phase = "open"
    /\ Len(f_appended) < MaxAppends
    /\ ~AppendRaises(f_file[1])
    /\ n \in 1..(Len(Entry(f_file[1], s)) - 1)
    /\ f_file' = Some(WriteAt(f_file[1], SeekBack(f_file[1]),
                              Entry(f_file[1], s), n))
    /\ f_phase' = "crashed"
    /\ f_torn' = f_torn + 1
    /\ UNCHANGED <<f_count, f_runs, f_appended, f_evaluated, mvars, bvars,
                   wvars, tvars, svars, xvars>>

\* the worker's loop ends: flush() writes nothing
WriterFinish ==
    /\ f_phase = "open"
    /\ f_phase' = "finished"
    /\ UNCHANGED <<f_file, f_count, f_runs, f_appended, f_evaluated, f_torn,
                   mvars, bvars, wvars, tvars, svars, xvars>>

\* no states file yet, no writer
WriterInit ==
    /\ f_file = None
    /\ f_phase = "none"
    /\ f_count = 0
    /\ f_runs = 0
    /\ f_appended = <<>>
    /\ f_evaluated = <<>>
    /\ f_torn = 0

WriterNext ==
    \/ WriterOpen
    \/ WriterFinish
    \/ \E s \in LogStates : WriterAppend(s)
    \/ \E s \in LogStates, n \in 1..5 : WriterCrash(s, n)

----------------------------------------------------------------------------
(* The strategies: LateGameUnderdogStrategy, VolatileUnderdogExitStrategy  *)
(*                                                                         *)
(* Prices are in thousandths of a dollar, money in cents, the time         *)
(* remaining in tenths of a minute.  The inputs keep clear of the values   *)
(* at which floating point rounding decides a comparison.                  *)

StrategyNames == {"late_game_underdog", "volatile_underdog_exit"}

\* the constructor's reading of the configuration: max_price 0.18,
\* min_quarter 4, a stake of 25 dollars, defaults for the rest
Params ==
    [max_price |-> 180, min_quarter |-> 4, stake |-> 2500,
     max_score_diff |-> 6, min_time_remaining |-> 5,
     max_time_remaining |-> 50, profit_target_pct |-> 10]

TradeIntent(market_id, action, position_size, price) ==
    [market_id |-> market_id, action |-> action,
     position_size |-> position_size, price |-> price]

\* LateGameUnderdogStrategy._effective_open_price: ask, then mid, then bid
LateEffectiveOpenPrice(m) ==
    IF m.yes_ask_prob # None THEN m.yes_ask_prob
    ELSE IF m.price # None THEN m.price
    ELSE m.yes_bid_prob

\* VolatileUnderdogExitStrategy._effective_open_price: ask, then mid
ExitEffectiveOpenPrice(m) ==
    IF m.yes_ask_prob # None THEN m.yes_ask_prob ELSE m.price

\* a faulty variant that takes entries in every quarter
InWindowAnyQuarter(p, quarter, time_remaining) ==
    /\ p.min_time_remaining < time_remaining
    /\ time_remaining < p.max_time_remaining

\* the late-game filter both strategies apply before an entry
InWindow(p, quarter, time_remaining) ==
    /\ quarter >= p.min_quarter
    /\ p.min_time_remaining < time_remaining
    /\ time_remaining < p.max_time_remaining

\* positions.get(market_id): the entry of the portfolio view, None if absent
PositionOf(held, market_id) ==
    IF \E i \in 1..Len(held) : held[i].market_id = market_id
    THEN Some(held[CHOOSE i \in 1..Len(held) :
                            held[i].market_id = market_id])
    ELSE None

LateIsCandidate(m) ==
    /\ m.type = "moneyline"
    /\ LateEffectiveOpenPrice(m) # None
    /\ LateEffectiveOpenPrice(m)[1] > 0

\* LateGameUnderdogStrategy.on_state
LateGameOnState(p, state, held) ==
    LET c == SelectSeq(state.markets, LateIsCandidate)
        score_diff == IF state.score_diff = 0 THEN 999 ELSE state.score_diff
    IN  IF ~InWindow(p, state.quarter, state.time_remaining_minutes)
        THEN <<>>
        ELSE IF c = <<>> THEN <<>>
        ELSE LET first == CHOOSE i \in 1..Len(c) : \A j \in 1..Len(c) :
                     \/ LateEffectiveOpenPrice(c[i])[1]
                            < LateEffectiveOpenPrice(c[j])[1]
                     \/ /\ LateEffectiveOpenPrice(c[i])[1]
                               = LateEffectiveOpenPrice(c[j])[1]
                        /\ i <= j
                 underdog == c[first]
                 implied_win_prob == LateEffectiveOpenPrice(underdog)[1]
                 pos_info == PositionOf(held, underdog.market_id)
                 current_risk == IF pos_info # None
                                 THEN pos_info[1].dollars_at_risk ELSE 0
             IN  IF /\ score_diff <= p.max_score_diff
                    /\ 10 < implied_win_prob
                    /\ implied_win_prob < p.max_price
                    /\ current_risk = 0
                 THEN <<TradeIntent(underdog.market_id, "open", p.stake, None)>>
                 ELSE <<>>

\* VolatileUnderdogExitStrategy.on_state, part 1: the exits, by position
RECURSIVE ExitIntents(_, _, _)
ExitIntents(p, mkts, held) ==
    IF held = <<>> THEN <<>>
    ELSE LET pos == Head(held)
             rest == ExitIntents(p, mkts, Tail(held))
             found == \E i \in 1..Len(mkts) :
                          mkts[i].market_id = pos.market_id
             market_data == mkts[CHOOSE i \in 1..Len(mkts) :
                 /\ mkts[i].market_id = pos.market_id
                 /\ \A j \in 1..(i - 1) : mkts[j].market_id # pos.market_id]
         IN  IF ~found THEN rest
             ELSE IF market_data.yes_bid_prob = None THEN rest
             ELSE IF pos.entry_price = None \/ pos.entry_price = Some(0)
             THEN rest
             ELSE LET current_bid == market_data.yes_bid_prob[1]
                      entry_price == pos.entry_price[1]
                  IN  IF (current_bid - entry_price) * 100
                             >= p.profit_target_pct * entry_price
                      THEN <<TradeIntent(pos.market_id, "close",
                                 (pos.contracts * current_bid) \div 10,
                                 Some(current_bid))>> \o rest
                      ELSE rest

\* part 2: the entries, by market
RECURSIVE EntryIntents(_, _, _)
EntryIntents(p, mkts, held) ==
    IF mkts = <<>> THEN <<>>
    ELSE LET m == Head(mkts)
             rest == EntryIntents(p, Tail(mkts), held)
             p_eff == ExitEffectiveOpenPrice(m)
         IN  IF m.type # "moneyline" THEN rest
             ELSE IF p_eff = None \/ ~(10 < p_eff[1] /\ p_eff[1] <= p.max_price)
             THEN rest
             ELSE IF PositionOf(held, m.market_id) # None THEN rest
             ELSE <<TradeIntent(m.market_id, "open", p.stake, p_eff)>> \o rest

Abs(x) == IF x < 0 THEN 0 - x ELSE x

VolatileOnState(p, state, held) ==
    LET exits == ExitIntents(p, state.markets, held)
        in_window ==
            /\ InWindow(p, state.quarter, state.time_remaining_minutes)
            /\ Abs(state.score_home - state.score_away) <= p.max_score_diff
    IN  IF ~in_window THEN exits
        ELSE exits \o EntryIntents(p, state.markets, held)

OnState(name, p, state, held) ==
    IF name = "late_game_underdog" THEN LateGameOnState(p, state, held)
    ELSE VolatileOnState(p, state, held)

\* The States and portfolio views a strategy is evaluated on: third or
\* fourth quarter, 2 or 6 minutes left, a close game or not; market A cheap,
\* dear or without an ask, with or without a bid and a last price, alone or
\* beside a dear market B; no position, or a position in A with or without
\* an entry price on record
Market(id, ask, bid, last) ==
    [market_id |-> id, type |-> "moneyline", yes_ask_prob |-> ask,
     yes_bid_prob |-> bid, price |-> last]

MarketB == Market("B", Some(700), Some(650), Some(680))

MarketLists ==
    UNION { {<<Market("A", ask, bid, last)>>,
             <<Market("A", ask, bid, last), MarketB>>} :
            ask \in {None, Some(100), Some(300)},
            bid \in {None, Some(120)},
            last \in {None, Some(150)} }

PortfolioViews ==
    { <<>>,
      <<[market_id |-> "A", contracts |-> 25, dollars_at_risk |-> 250,
         entry_price |-> None]>>,
      <<[market_id |-> "A", contracts |-> 25, dollars_at_risk |-> 250,
         entry_price |-> Some(100)]>> }

StrategyInputs ==
    { [state |-> [quarter |-> q, time_remaining_minutes |-> t,
                  score_home |-> sc[1], score_away |-> sc[2],
                  score_diff |-> sc[1] - sc[2], markets |-> ms],
       positions |-> pv] :
      q \in {3, 4}, t \in {20, 60}, sc \in {<<3, 0>>, <<0, 10>>},
      ms \in MarketLists, pv \in PortfolioViews }

\* one call of on_state
StrategyOnState(in) ==
    /\ s_in' = Some(in)
    /\ s_out' = Some(OnState(s_name, Params, in.state, in.positions))
    /\ UNCHANGED <<s_name, mvars, bvars, wvars, tvars, fvars, xvars>>

StrategyIdle ==
    /\ s_name = "late_game_underdog"
    /\ s_in = None
    /\ s_out = None

StrategyInit ==
    /\ s_name \in StrategyNames
    /\ s_in = None
    /\ s_out = None

StrategyNext == \E in \in StrategyInputs : StrategyOnState(in)

----------------------------------------------------------------------------
(* The deficit-recovery strategy *)

\* DeficitRecoveryStrategy.__init__, the defaults: points, thousandths of a
\* dollar, cents
DeficitParams ==
    [stake |-> 2500, min_initial_deficit |-> 8, max_current_deficit |-> 4,
     max_price |-> 250, min_price |-> 10]

\* a faulty variant that remembers the deficit seen last
DeficitLast(old, deficit) == deficit

\* `if home_deficit > game_mem["home_max_deficit"]: ...`
DeficitMax(old, deficit) == IF deficit > old THEN deficit ELSE old

\* 1. Update Deficit Memory
DeficitMemory(games, state) ==
    LET game_mem == IF state.game_id \in DOMAIN games THEN games[state.game_id]
                    ELSE [home_max_deficit |-> 0, away_max_deficit |-> 0]
        home_deficit == state.score_away - state.score_home
        away_deficit == state.score_home - state.score_away
        updated == [home_max_deficit |-> DeficitMax(game_mem.home_max_deficit,
                                                    home_deficit),
                    away_max_deficit |-> DeficitMax(game_mem.away_max_deficit,
                                                    away_deficit)]
    IN  [g \in DOMAIN games \cup {state.game_id} |->
            IF g = state.game_id THEN updated ELSE games[g]]

\* which team a market is for: "home", "away" or "" (the market is skipped)
DeficitSide(m, state) ==
    IF m.side = "home" \/ m.team = state.home_team THEN "home"
    ELSE IF m.side = "away" \/ m.team = state.away_team THEN "away"
    ELSE ""

\* 2. Check Conditions, for the markets from the i-th on
RECURSIVE DeficitIntents(_, _, _, _, _)
DeficitIntents(p, game_mem, state, held, i) ==
    IF i > Len(state.markets) THEN <<>>
    ELSE
      LET m == state.markets[i]
          rest == DeficitIntents(p, game_mem, state, held, i + 1)
          on == DeficitSide(m, state)
          curr_deficit == IF on = "home" THEN state.score_away - state.score_home
                          ELSE state.score_home - state.score_away
          worst_past_deficit == IF on = "home" THEN game_mem.home_max_deficit
                                ELSE game_mem.away_max_deficit
          p_eff == LateEffectiveOpenPrice(m)
          pos_info == PositionOf(held, m.market_id)
          current_risk == IF pos_info # None THEN pos_info[1].dollars_at_risk
                          ELSE 0
      IN  IF m.type # "moneyline" THEN rest
          ELSE IF on = "" THEN rest
          ELSE IF ~(0 <= curr_deficit /\ curr_deficit <= p.max_current_deficit)
          THEN rest
          ELSE IF worst_past_deficit < p.min_initial_deficit THEN rest
          ELSE IF p_eff = None \/ ~(p.min_price < p_eff[1] /\ p_eff[1] <= p.max_price)
          THEN rest
          ELSE IF current_risk = 0
          THEN <<TradeIntent(m.market_id, "open", p.stake, None)>> \o rest
          ELSE rest

\* DeficitRecoveryStrategy.on_state: the memory it leaves, the intents it
\* returns
DeficitOnState(p, games, state, held) ==
    LET mem == DeficitMemory(games, state)
    IN  [games |-> mem,
         intents |-> DeficitIntents(p, mem[state.game_id], state, held, 1)]

\* The States the strategy is evaluated on: two games of HOM against AWY;
\* the home side 10 down, 3 down, level, 10 up; the home market cheap at
\* the floor, at the ceiling, dear, or without an ask, beside the away
\* market, or a lone market known by its team only, or by nothing
DeficitMarket(id, side, team, ask, last) ==
    [market_id |-> id, type |-> "moneyline", side |-> side, team |-> team,
     yes_ask_prob |-> ask, yes_bid_prob |-> None, price |-> last]

DeficitMarketLists ==
    { <<DeficitMarket("KX-HOM", "home", "HOM", q[1], q[2]),
        DeficitMarket("KX-AWY", "away", "AWY", Some(200), None)>> :
        q \in {<<Some(10), None>>, <<Some(250), None>>, <<Some(300), None>>,
               <<None, Some(200)>>} }
    \cup { <<DeficitMarket("KX-HOM", "unknown", "HOM", Some(200), None)>>,
           <<DeficitMarket("KX-HOM", "unknown", "", Some(200), None)>> }

DeficitScores == {<<0, 10>>, <<7, 10>>, <<7, 7>>, <<10, 0>>}

DeficitInputs ==
    { [state |-> [game_id |-> g, home_team |-> "HOM", away_team |-> "AWY",
                  score_home |-> sc[1], score_away |-> sc[2], markets |-> ms],
       positions |-> pv] :
      g \in {"G1", "G2"}, sc \in DeficitScores, ms \in DeficitMarketLists,
      pv \in { <<>>, <<[market_id |-> "KX-HOM", contracts |-> 25,
                        dollars_at_risk |-> 250, entry_price |-> None]>> } }

\* one call of on_state
DeficitStrategyOnState(in) ==
    LET r == DeficitOnState(DeficitParams, d_games, in.state, in.positions)
    IN  /\ d_games' = r.games
        /\ d_in' = Some(in)
        /\ d_out' = Some(r.intents)
        /\ d_seen' = d_seen \cup {<<in.state.game_id, in.state.score_home,
                                    in.state.score_away>>}
        /\ UNCHANGED <<mvars, bvars, wvars, tvars, fvars, svars, lvars, cvars>>

\* `self.state.setdefault("games", {})`
DeficitInit ==
    /\ d_games = <<>>
    /\ d_in = None
    /\ d_out = None
    /\ d_seen = {}

DeficitNext == \E in \in DeficitInputs : DeficitStrategyOnState(in)

----------------------------------------------------------------------------
(* The NFL merger's loop over sources that may deliver for ever, or fail *)

\* The merger is followed here from one suspension point to the next: the
\* background tasks run only while merge_nfl_states is suspended at a yield
\* or in its sleep.  Ticks are counted, snapshots are numbered 1, 2, ... in
\* the order of their delivery; snapshot 0 stands for "none yet".

\* locals of merge_nfl_states after `ticks_alive = True; scores_alive = True`
LoopFrame ==
    [ pc |-> "top",            \* "top", "yield_tick", "yield_hb", "sleep",
                               \* "done", "raised"
      tick_queue |-> 0,        \* ticks waiting in tick_queue
      tick_eos |-> FALSE,      \* the sentinel waits behind them
      score_queue |-> 0,       \* the newest snapshot waiting in score_queue
      score_eos |-> FALSE,     \* the sentinel waits behind it
      ticks_alive |-> TRUE,
      scores_alive |-> TRUE,
      latest_score |-> 0,
      did_update |-> FALSE,
      due |-> FALSE,           \* (now - last_emit).total_seconds() >= 1.0
      shown |-> 0 ]            \* the snapshot in the State yielded last

\* D. `if not did_update: await asyncio.sleep(0.1)`
LoopSectionD(r) ==
    [r EXCEPT !.pc = IF r.did_update THEN "top" ELSE "sleep"]

\* C. the heartbeat
LoopSectionC(r) ==
    IF r.latest_score # 0 /\ r.due
    THEN [r EXCEPT !.pc = "yield_hb", !.shown = r.latest_score]
    ELSE LoopSectionD(r)

\* B. `while not tick_queue.empty()`, up to the next yield
RECURSIVE LoopSectionB(_)
LoopSectionB(r) ==
    IF r.tick_queue = 0 /\ ~r.tick_eos THEN LoopSectionC(r)
    ELSE IF r.tick_queue = 0
    THEN LoopSectionB([r EXCEPT !.tick_eos = FALSE, !.ticks_alive = FALSE])
    ELSE IF r.latest_score # 0
    THEN [r EXCEPT !.tick_queue = @ - 1, !.pc = "yield_tick",
                   !.shown = r.latest_score]
    ELSE LoopSectionB([r EXCEPT !.tick_queue = @ - 1])

\* A. the score queue is drained, its newest snapshot taken
LoopSectionA(r) ==
    [r EXCEPT !.score_queue = 0, !.score_eos = FALSE,
              !.scores_alive = r.scores_alive /\ ~r.score_eos,
              !.latest_score = IF r.score_queue # 0 THEN r.score_queue ELSE @,
              !.did_update = r.score_queue # 0]

\* the cleanup awaits both tasks: one that ended with an exception raises it
LoopCleanup(r, tick_src, score_src) ==
    [r EXCEPT !.pc = IF "failed" \in {tick_src, score_src} THEN "raised"
                     ELSE "done"]

\* one pass of `while keep_running`, up to its next suspension
LoopPass(r, tick_src, score_src) ==
    IF ~r.ticks_alive /\ ~r.scores_alive
    THEN LoopCleanup(r, tick_src, score_src)
    ELSE LoopSectionB(LoopSectionA(r))

Suspended == loop.pc \in {"yield_tick", "yield_hb", "sleep"}

\* the loop starts a pass: at its start, after a pass that updated, after
\* its sleep
Loop_Pass ==
    /\ loop.pc \in {"top", "sleep"}
    /\ loop' = LoopPass(loop, l_tick_src, l_score_src)
    /\ UNCHANGED <<l_tick_src, l_score_src, l_delivered,
                   mvars, bvars, wvars, tvars, fvars, svars, dvars, cvars>>

\* the consumer asks for the next State after one yielded for a tick
Loop_ResumeTick ==
    /\ loop.pc = "yield_tick"
    /\ loop' = LoopSectionB([loop EXCEPT !.due = FALSE, !.did_update = TRUE])
    /\ UNCHANGED <<l_tick_src, l_score_src, l_delivered,
                   mvars, bvars, wvars, tvars, fvars, svars, dvars, cvars>>

\* the consumer asks for the next State after a heartbeat
Loop_ResumeHeartbeat ==
    /\ loop.pc = "yield_hb"
    /\ loop' = LoopSectionD([loop EXCEPT !.due = FALSE, !.did_update = TRUE])
    /\ UNCHANGED <<l_tick_src, l_score_src, l_delivered,
                   mvars, bvars, wvars, tvars, fvars, svars, dvars, cvars>>

\* _consume_ticks: `await tick_queue.put(t)`
Loop_ConsumeTick ==
    /\ Suspended
    /\ l_tick_src = "open"
    /\ loop.tick_queue < MaxQueue
    /\ loop' = [loop EXCEPT !.tick_queue = @ + 1]
    /\ UNCHANGED <<l_tick_src, l_score_src, l_delivered,
                   mvars, bvars, wvars, tvars, fvars, svars, dvars, cvars>>

\* _consume_ticks: the stream ends, the sentinel is put
Loop_TicksEnd ==
    /\ Suspended
    /\ l_tick_src = "open"
    /\ l_tick_src' = "ended"
    /\ loop' = [loop EXCEPT !.tick_eos = TRUE]
    /\ UNCHANGED <<l_score_src, l_delivered,
                   mvars, bvars, wvars, tvars, fvars, svars, dvars, cvars>>

\* _consume_ticks: the stream raises, the task ends with it before its
\* last line
Loop_TicksFail ==
    /\ Suspended
    /\ l_tick_src = "open"
    /\ l_tick_src' = "failed"
    /\ UNCHANGED <<loop, l_score_src, l_delivered,
                   mvars, bvars, wvars, tvars, fvars, svars, dvars, cvars>>

\* _consume_scores: `await score_queue.put(s)`
Loop_ConsumeScore ==
    /\ Suspended
    /\ l_score_src = "open"
    /\ l_delivered < MaxSnaps
    /\ l_delivered' = l_delivered + 1
    /\ loop' = [loop EXCEPT !.score_queue = l_delivered + 1]
    /\ UNCHANGED <<l_tick_src, l_score_src,
                   mvars, bvars, wvars, tvars, fvars, svars, dvars, cvars>>

\* _consume_scores: the stream ends, the sentinel is put
Loop_ScoresEnd ==
    /\ Suspended
    /\ l_score_src = "open"
    /\ l_score_src' = "ended"
    /\ loop' = [loop EXCEPT !.score_eos = TRUE]
    /\ UNCHANGED <<l_tick_src, l_delivered,
                   mvars, bvars, wvars, tvars, fvars, svars, dvars, cvars>>

\* _consume_scores: the stream raises
Loop_ScoresFail ==
    /\ Suspended
    /\ l_score_src = "open"
    /\ l_score_src' = "failed"
    /\ UNCHANGED <<loop, l_tick_src, l_delivered,
                   mvars, bvars, wvars, tvars, fvars, svars, dvars, cvars>>

\* a second has gone by since last_emit
Loop_Clock ==
    /\ Suspended
    /\ ~loop.due
    /\ loop' = [loop EXCEPT !.due = TRUE]
    /\ UNCHANGED <<l_tick_src, l_score_src, l_delivered,
                   mvars, bvars, wvars, tvars, fvars, svars, dvars, cvars>>

LoopInit ==
    /\ loop = LoopFrame
    /\ l_tick_src = "open"
    /\ l_score_src = "open"
    /\ l_delivered = 0

\* what the merger does itself, once its consumer has asked for a State
LoopMerger == Loop_Pass \/ Loop_ResumeTick \/ Loop_ResumeHeartbeat

LoopNext ==
    \/ Loop_Pass
    \/ Loop_ResumeTick
    \/ Loop_ResumeHeartbeat
    \/ Loop_ConsumeTick
    \/ Loop_TicksEnd
    \/ Loop_TicksFail
    \/ Loop_ConsumeScore
    \/ Loop_ScoresEnd
    \/ Loop_ScoresFail
    \/ Loop_Clock

\* LateGameUnderdogStrategy.on_state: `m["_effective_open_price"] = p_eff`.
\* The markets of the State that carry the key after the call.
LateGameMarks(p, state) ==
    IF ~InWindow(p, state.quarter, state.time_remaining_minutes) THEN {}
    ELSE { state.markets[i].market_id :
             i \in { j \in 1..Len(state.markets) : LateIsCandidate(state.markets[j]) } }

----------------------------------------------------------------------------
(* The trading cycle of a worker: configuration, strategies, broker        *)
(*                                                                         *)
(* run_worker builds its broker from the configured mode and then, for     *)
(* every State, takes the broker's portfolio view, asks the composite      *)
(* strategy for intents and hands them to broker.execute one by one.       *)

\* str.lower(), on the mode strings of the model: all but these two are in
\* lower case already
Lower(str) == IF str \in {"LIVE", "Live"} THEN "live" ELSE str

\* a faulty variant that trades live whatever the mode
IsDryRunNever(mode) == FALSE

\* `mode_str = trading_config.get("mode", "dry_run").lower()`
\* `is_dry_run = (mode_str != "live")`
IsDryRun(mode) == Lower(IF mode = None THEN "dry_run" ELSE mode[1]) # "live"

\* the modes a configuration may state: none, an empty one, "live" in three
\* spellings, and two others
Modes ==
    {None, Some(""), Some("live"), Some("LIVE"), Some("Live"), Some("paper"),
     Some("dry_run")}

\* get_portfolio_view: `{"positions": dict(self._positions)}`, as the list of
\* its items.  A position carries dollars_at_risk and contracts and no other
\* key: entry_price reads None.
RECURSIVE PortfolioItems(_, _)
PortfolioItems(pos, ids) ==
    IF ids = {} THEN <<>>
    ELSE LET mid == CHOOSE x \in ids : TRUE
         IN  <<[market_id |-> mid, contracts |-> pos[mid].contracts,
                dollars_at_risk |-> pos[mid].dollars_at_risk,
                entry_price |-> None]>>
             \o PortfolioItems(pos, ids \ {mid})

GetPortfolioView(pos) == PortfolioItems(pos, DOMAIN pos)

\* CompositeStrategy.on_state over [DeficitRecoveryStrategy,
\* VolatileUnderdogExitStrategy]: every child is handed the same State and
\* the same portfolio view, their intents are joined in order
CompositeIntents(games, state, held) ==
    LET first == DeficitOnState(DeficitParams, games, state, held)
    IN  [games |-> first.games,
         intents |-> first.intents \o VolatileOnState(Params, state, held)]

\* the market's entry in state["markets"], for _get_limit_price
MarketEntry(state, mid) ==
    IF \E i \in 1..Len(state.markets) : state.markets[i].market_id = mid
    THEN Some(state.markets[CHOOSE i \in 1..Len(state.markets) :
                  /\ state.markets[i].market_id = mid
                  /\ \A j \in 1..(i - 1) : state.markets[j].market_id # mid])
    ELSE None

\* The States of a game of HOM against AWY in its fourth quarter: inside
\* the strategies' time window or past it, the home side 10 or 3 down, its
\* market at 0.13 bid / 0.15 asked or at 0.30 bid / 0.32 asked
CycleStates ==
    { [game_id |-> "G1", home_team |-> "HOM", away_team |-> "AWY",
       quarter |-> 4, time_remaining_minutes |-> t,
       score_home |-> sc[1], score_away |-> sc[2],
       markets |-> << [market_id |-> "KX-HOM", type |-> "moneyline",
                       side |-> "home", team |-> "HOM",
                       yes_ask_prob |-> Some(q[1]), yes_bid_prob |-> Some(q[2]),
                       price |-> None] >>] :
      t \in {20, 60}, sc \in {<<0, 10>>, <<7, 10>>},
      q \in {<<150, 130>>, <<320, 300>>} }

\* `portfolio_view = broker.get_portfolio_view()`
\* `intents = composite_strategy.on_state(state, portfolio_view)`
CycleEvaluate(state) ==
    /\ c_pending = <<>>
    /\ c_cycles < MaxCycles
    /\ c_cycles' = c_cycles + 1
    /\ LET r == CompositeIntents(c_games, state, GetPortfolioView(positions))
       IN  /\ c_games' = r.games
           /\ c_intents' = r.intents
           /\ c_pending' = r.intents
    /\ c_state' = Some(state)
    /\ UNCHANGED <<mode_str, c_entry, mvars, bvars, wvars, tvars, fvars, svars,
                   lvars, dvars>>

\* `result = await broker.execute(intent, state)`, for the next intent
CycleExecute(bal, placed) ==
    /\ c_pending # <<>>
    /\ LET intent == Head(c_pending)
           mid == intent.market_id
           r == ExecuteResult(intent, MarketEntry(c_state[1], mid), bal, placed)
       IN  /\ positions' = r.positions
           /\ last_exec' = Some([r EXCEPT !.positions = positions])
           /\ venue_calls' =
                  [balance |-> venue_calls.balance
                                 + (IF r.balance_fetched THEN 1 ELSE 0),
                   orders |-> venue_calls.orders
                                 + (IF r.submitted THEN 1 ELSE 0)]
           /\ c_entry' =
                  [x \in DOMAIN r.positions |->
                      IF x \in DOMAIN positions THEN c_entry[x]
                      ELSE 10 * r.payload.price_cents]
    /\ n_exec' = n_exec + 1
    /\ c_pending' = Tail(c_pending)
    /\ UNCHANGED <<dry_run, mode_str, c_state, c_intents, c_games, c_cycles,
                   mvars, wvars, tvars, fvars, svars, lvars, dvars>>

\* no worker configured
CycleIdle ==
    /\ mode_str = None
    /\ c_state = None
    /\ c_intents = <<>>
    /\ c_pending = <<>>
    /\ c_games = <<>>
    /\ c_entry = <<>>
    /\ c_cycles = 0

\* run_worker has read its configuration and built its broker
CycleInit ==
    /\ mode_str \in Modes
    /\ dry_run = IsDryRun(mode_str)
    /\ positions = <<>>
    /\ venue_calls = [balance |-> 0, orders |-> 0]
    /\ n_exec = 0
    /\ last_exec = None
    /\ c_state = None
    /\ c_intents = <<>>
    /\ c_pending = <<>>
    /\ c_games = <<>>
    /\ c_entry = <<>>
    /\ c_cycles = 0

CycleNext ==
    \/ \E state \in CycleStates : CycleEvaluate(state)
    \/ \E v \in VenueAnswers : CycleExecute(v[1], v[2])

\* the components above, not started
OthersIdle ==
    /\ LoopInit
    /\ DeficitInit
    /\ CycleIdle

----------------------------------------------------------------------------
(* Specifications *)

\* the mergers, with no broker attached
Init ==
    /\ MergerInit
    /\ dry_run = TRUE
    /\ positions = <<>>
    /\ venue_calls = [balance |-> 0, orders |-> 0]
    /\ n_exec = 0
    /\ last_exec = None
    /\ WorkerInit
    /\ TickIdle
    /\ WriterInit
    /\ StrategyIdle
    /\ OthersIdle

Spec == Init /\ [][MergerNext]_vars

\* the broker, executing intents against States it is handed
BrokerSpecInit ==
    /\ BrokerInit
    /\ league = "nfl"
    /\ MergerInit
    /\ WorkerInit
    /\ TickIdle
    /\ WriterInit
    /\ StrategyIdle
    /\ OthersIdle

BrokerSpec == BrokerSpecInit /\ [][BrokerNext]_vars

\* a game worker of either league, from its start
WorkerSpecInit ==
    /\ MergerInit
    /\ dry_run = TRUE
    /\ positions = <<>>
    /\ venue_calls = [balance |-> 0, orders |-> 0]
    /\ n_exec = 0
    /\ last_exec = None
    /\ WorkerInit
    /\ TickIdle
    /\ WriterInit
    /\ StrategyIdle
    /\ OthersIdle

WorkerSpec == WorkerSpecInit /\ [][WorkerNext]_vars

\* a tick stream, from its start
TickSpecInit ==
    /\ league = "nfl"
    /\ MergerInit
    /\ dry_run = TRUE
    /\ positions = <<>>
    /\ venue_calls = [balance |-> 0, orders |-> 0]
    /\ n_exec = 0
    /\ last_exec = None
    /\ WorkerInit
    /\ TickInit
    /\ WriterInit
    /\ StrategyIdle
    /\ OthersIdle

TickSpec == TickSpecInit /\ [][TickNext]_vars

\* the state log of one game, over the runs of its worker
WriterSpecInit ==
    /\ league = "nfl"
    /\ MergerInit
    /\ dry_run = TRUE
    /\ positions = <<>>
    /\ venue_calls = [balance |-> 0, orders |-> 0]
    /\ n_exec = 0
    /\ last_exec = None
    /\ WorkerInit
    /\ TickIdle
    /\ WriterInit
    /\ StrategyIdle
    /\ OthersIdle

WriterSpec == WriterSpecInit /\ [][WriterNext]_vars

\* a strategy, evaluated on State after State
StrategySpecInit ==
    /\ league = "nba"
    /\ MergerInit
    /\ dry_run = TRUE
    /\ positions = <<>>
    /\ venue_calls = [balance |-> 0, orders |-> 0]
    /\ n_exec = 0
    /\ last_exec = None
    /\ WorkerInit
    /\ TickIdle
    /\ WriterInit
    /\ StrategyInit
    /\ OthersIdle

StrategySpec == StrategySpecInit /\ [][StrategyNext]_vars

\* the deficit-recovery strategy, evaluated on State after State
DeficitSpecInit ==
    /\ league = "nba"
    /\ MergerInit
    /\ dry_run = TRUE
    /\ positions = <<>>
    /\ venue_calls = [balance |-> 0, orders |-> 0]
    /\ n_exec = 0
    /\ last_exec = None
    /\ WorkerInit
    /\ TickIdle
    /\ WriterInit
    /\ StrategyIdle
    /\ OthersIdle

DeficitSpec == DeficitSpecInit /\ [][DeficitNext]_vars

\* a worker's trading cycles, from its configuration on
CycleSpecInit ==
    /\ league = "nba"
    /\ MergerInit
    /\ CycleInit
    /\ WorkerInit
    /\ TickIdle
    /\ WriterInit
    /\ StrategyIdle
    /\ LoopInit
    /\ DeficitInit

CycleSpec == CycleSpecInit /\ [][CycleNext]_vars

\* the NFL merger's loop, resumed by its consumer whenever it has yielded and
\* woken by the event loop whenever it sleeps, while the clock advances
LoopSpecInit ==
    /\ league = "nfl"
    /\ MergerInit
    /\ dry_run = TRUE
    /\ positions = <<>>
    /\ venue_calls = [balance |-> 0, orders |-> 0]
    /\ n_exec = 0
    /\ last_exec = None
    /\ WorkerInit
    /\ TickIdle
    /\ WriterInit
    /\ StrategyIdle
    /\ OthersIdle

LoopSpec ==
    /\ LoopSpecInit
    /\ [][LoopNext]_vars
    /\ WF_vars(LoopMerger)
    /\ WF_vars(Loop_Clock)

----------------------------------------------------------------------------
(* Properties of the mergers, under Spec *)

IsTickState(e) == e.kind = "tick"
IsHeartbeat(e) == e.kind = "heartbeat"
HadScore(p) == p.had_score

\* the value a tick carries for a field of the market dict, None if absent
\* (the NFL merger keeps the traded price under "price", the NBA merger
\* under "last_prob")
TickValue(tick, f) ==
    CASE f = "price" -> IF league = "nfl" THEN tick.price_prob ELSE None
      [] f = "last_prob" -> IF league = "nba" THEN tick.price_prob ELSE None
      [] f = "yes_bid_prob" -> tick.yes_bid_prob
      [] f = "yes_ask_prob" -> tick.yes_ask_prob
      [] f = "volume" -> tick.volume
      [] f = "open_interest" -> tick.open_interest
      [] f = "status" -> tick.status

\* C1: in each merger no State is emitted while no snapshot has been
\* received, and a tick that arrives before the first snapshot only updates
\* the instrument table: the merger takes it into the table and goes on.
C1_NoStateBeforeSnapshot ==
    /\ recv_score = None => emitted = <<>>
    /\ (recv_score = None /\ last_tick # None) =>
           /\ pc # "crashed"
           /\ last_tick[1].tick.market_ticker \in DOMAIN markets

\* C2: freshness.  Every emitted State carries the score of the last
\* snapshot and the instrument values of every tick that the sources had
\* delivered when the State was emitted, queued or applied.
C2_Freshness ==
    \A i \in 1..Len(emitted) :
        /\ emitted[i].seen_score # None
        /\ emitted[i].snapshot_no = emitted[i].seen_score[1].no
        /\ emitted[i].markets = emitted[i].seen_markets

\* C3: the emitted States are non-decreasing in timestamp, tick States and
\* heartbeat States interleaved.
C3_TimestampsNonDecreasing ==
    \A i, j \in 1..Len(emitted) :
        i < j => emitted[i].timestamp <= emitted[j].timestamp

\* C4: when a merger takes up a tick, every field of every instrument that
\* the tick does not carry keeps the value it had; a market the tick creates
\* has no value for such a field.  A tick with no price field changes no
\* price field of any instrument.
C4_AbsentFieldsKept ==
    last_tick # None =>
        LET tick == last_tick[1].tick
            before == last_tick[1].before
        IN  /\ DOMAIN before \subseteq DOMAIN markets
            /\ \A mt \in DOMAIN markets : \A f \in DataFields :
                   (mt # tick.market_ticker \/ TickValue(tick, f) = None) =>
                       markets[mt][f] = IF mt \in DOMAIN before
                                        THEN before[mt][f] ELSE None
            /\ (\A f \in PriceFields : TickValue(tick, f) = None) =>
                   \A mt \in DOMAIN before : \A f \in PriceFields :
                       markets[mt][f] = before[mt][f]

\* a tick without any field arrived for a market whose fields were known,
\* and was taken up
C4_Witness ==
    /\ last_tick # None
    /\ LET tick == last_tick[1].tick
           before == last_tick[1].before
       IN  /\ tick.market_ticker \in DOMAIN before
           /\ \A f \in DataFields : TickValue(tick, f) = None
           /\ before[tick.market_ticker].price # None
           /\ before[tick.market_ticker].yes_bid_prob # None
           /\ before[tick.market_ticker].status # None
           /\ Len(processed) >= 2

\* C5: once a snapshot is present, every tick with a non-empty instrument id
\* that the merger takes up produces exactly one State, stamped with the
\* tick's timestamp, in the order of the ticks.
C5_OneStatePerTick ==
    LET due == SelectSeq(processed, HadScore)
        out == SelectSeq(emitted, IsTickState)
    IN  /\ Len(out) = Len(due)
        /\ \A i \in 1..Len(due) :
               i <= Len(out) =>
                   /\ out[i].tick_no = due[i].no
                   /\ out[i].timestamp = due[i].ts

\* C6: heartbeat.  While a snapshot is present and no tick has arrived, a
\* merger that waits for its sources has emitted a heartbeat State for
\* every heartbeat interval that has passed since the snapshot arrived, and
\* the heartbeat timestamps are strictly increasing.
C6_HeartbeatPerInterval ==
    LET hb == SelectSeq(emitted, IsHeartbeat)
    IN  /\ (/\ latest_score # None /\ score_at # None /\ n_ticks = 0
            /\ pc \in {"sleep", "await_tick"})
               => Len(hb) >= (now - score_at[1]) \div HEARTBEAT_SECS
        /\ \A i, j \in 1..Len(hb) : i < j => hb[i].timestamp < hb[j].timestamp

\* C7: ticks arrive before any snapshot, then the first snapshot arrives and
\* no further tick.  The merger answers with one State (and no more than
\* the heartbeats due since), which carries the values of the earlier ticks
\* and score_diff = home - away.
C7_FirstSnapshotAfterTicks ==
    (/\ n_snaps = 1 /\ recv_score # None /\ latest_score = recv_score
     /\ processed # <<>> /\ tick_queue = <<>>
     /\ \A i \in 1..Len(processed) : ~processed[i].had_score)
        => /\ pc = "done" => Len(emitted) >= 1
           /\ Len(emitted) <= 1 + (now - score_at[1]) \div HEARTBEAT_SECS
           /\ \A i \in 1..Len(emitted) :
                  /\ emitted[i].markets = recv_markets
                  /\ emitted[i].score_diff =
                         recv_score[1].score_home - recv_score[1].score_away

\* a step of a background task: _consume_ticks, _consume_scores or
\* _scoreboard_worker has taken an item from its source
BackgroundStep ==
    \/ n_snaps' # n_snaps
    \/ league = "nfl" /\ n_ticks' # n_ticks
    \/ tick_eos' # tick_eos /\ tick_eos'
    \/ score_eos' # score_eos /\ score_eos'

\* C32 as stated: no step of a background task changes the instrument table
\* or the latest-snapshot slot
C32_OnlyTheMainLoopWrites ==
    [][BackgroundStep => UNCHANGED <<markets, latest_score>>]_vars

\* C32: no step of a background task changes the instrument table, and in
\* the NFL merger none changes the latest-snapshot slot
C32_BackgroundTasksHandOver ==
    [][BackgroundStep =>
          /\ UNCHANGED markets
          /\ league = "nfl" => UNCHANGED latest_score]_vars

\* the NFL scoreboard task has handed a snapshot over that the main loop has
\* not taken yet
C32_Witness ==
    /\ league = "nfl"
    /\ score_queue # <<>>
    /\ recv_score # None
    /\ latest_score # recv_score

\* `"markets": list(markets.values())`: the list of a State is its own, the
\* market dicts in it are the merger's, one per market id from its creation
\* on.  What the markets of an emitted State read when looked at now.
StateMarketsNow(e) == [mt \in DOMAIN e.markets |-> markets[mt]]

\* C33: every State the NFL merger has emitted still reads, market by
\* market, what it read when it was emitted
C33_EmittedStatesKeepTheirValues ==
    league = "nfl" =>
        \A i \in 1..Len(emitted) : StateMarketsNow(emitted[i]) = emitted[i].markets

----------------------------------------------------------------------------
(* Properties of the broker, under BrokerSpec *)

\* C8: an order whose notional (contracts times price) exceeds
\* MAX_ORDER_VALUE_SAFETY_CAP fails: execute returns a failed result, no
\* call goes to the venue, the positions are as before; live or dry run.
C8_SafetyCap ==
    last_exec # None =>
        LET e == last_exec[1]
        IN  (/\ "count" \in DOMAIN e.payload
             /\ e.payload.count * e.payload.price_cents
                    > MAX_ORDER_VALUE_SAFETY_CAP)
                => /\ ~e.ok
                   /\ ~e.submitted /\ ~e.balance_fetched
                   /\ positions = e.positions

\* a live broker that holds a position was asked for an order over the cap
C8_Witness ==
    /\ last_exec # None
    /\ ~dry_run
    /\ last_exec[1].payload.error = "safety_cap"
    /\ last_exec[1].payload.count * last_exec[1].payload.price_cents
           > MAX_ORDER_VALUE_SAFETY_CAP
    /\ last_exec[1].positions # <<>>

\* C9: a "close" for an instrument without a tracked position fails: a
\* failed result, nothing submitted, the positions as before.
C9_CloseWithoutPosition ==
    last_exec # None =>
        LET e == last_exec[1]
        IN  (/\ e.intent.action = "close"
             /\ e.intent.market_id \notin DOMAIN e.positions)
                => /\ ~e.ok
                   /\ ~e.submitted
                   /\ positions = e.positions

\* after an open, a close for the other instrument, at a valid price
C9_Witness ==
    /\ last_exec # None
    /\ last_exec[1].intent.action = "close"
    /\ last_exec[1].intent.market_id \notin DOMAIN last_exec[1].positions
    /\ last_exec[1].positions # <<>>
    /\ last_exec[1].intent.price # None

\* C10, as stated: a live broker submits no order unless the balance it
\* fetched in the same call covers the order's cost plus the buffer.
C10_NoOrderWithoutBalance ==
    (last_exec # None /\ ~dry_run /\ last_exec[1].submitted) =>
        LET e == last_exec[1]
        IN  /\ e.balance_fetched
            /\ e.balance # None
            /\ e.balance[1] >= e.payload.count * e.payload.price_cents
                                   + BALANCE_BUFFER

\* C10, for buy orders: a live broker submits no buy order unless the
\* balance it fetched in the same call covers the order's cost plus the
\* buffer; when the balance is short or the lookup fails, execute returns a
\* failed result, submits nothing and changes no position.
C10_NoBuyWithoutBalance ==
    (last_exec # None /\ ~dry_run) =>
        LET e == last_exec[1]
        IN  /\ (e.submitted /\ e.payload.action = "buy") =>
                   /\ e.balance_fetched
                   /\ e.balance # None
                   /\ e.balance[1] >= e.payload.count * e.payload.price_cents
                                          + BALANCE_BUFFER
            /\ (e.payload.ok /\ e.payload.action = "buy") => e.balance_fetched
            /\ (e.balance_fetched
                /\ (\/ e.balance = None
                    \/ e.balance[1] < e.payload.count * e.payload.price_cents
                                          + BALANCE_BUFFER))
                   => /\ ~e.ok
                      /\ ~e.submitted
                      /\ positions = e.positions

\* a live broker that holds a position fetched a balance too small for the
\* buy it was asked for
C10_Witness ==
    /\ last_exec # None
    /\ ~dry_run
    /\ last_exec[1].balance_fetched
    /\ last_exec[1].balance # None
    /\ last_exec[1].balance[1] < last_exec[1].payload.count
                                     * last_exec[1].payload.price_cents
                                     + BALANCE_BUFFER
    /\ last_exec[1].positions # <<>>
\* C11: execute changes the positions only when it returns success, and a
\* live broker only after it has submitted the order and place_order has
\* returned; when the payload, the balance check or the submission fails,
\* every position is as it was before the call.
C11_PositionsOnlyAfterSubmission ==
    last_exec # None =>
        LET e == last_exec[1]
        IN  /\ positions # e.positions =>
                   /\ e.ok
                   /\ ~dry_run => e.submitted
            /\ ~e.ok => positions = e.positions
            /\ (~e.payload.ok \/ e.error # "") => positions = e.positions

\* a live broker that holds a position passed the balance check, submitted
\* an order for the other instrument, and place_order raised
C11_Witness ==
    /\ last_exec # None
    /\ ~dry_run
    /\ last_exec[1].submitted
    /\ last_exec[1].error = "order_failed"
    /\ last_exec[1].balance_fetched
    /\ last_exec[1].positions # <<>>
    /\ last_exec[1].intent.market_id \notin DOMAIN last_exec[1].positions
\* the tracked position in an instrument, zero when there is none
Held(pos, mid) ==
    IF mid \in DOMAIN pos THEN pos[mid]
    ELSE [dollars_at_risk |-> 0, contracts |-> 0]

\* C12: a dry-run broker never contacts the venue (no balance lookup, no
\* order) and books every order it has built as filled: an accepted open of
\* n contracts at price p adds n to the instrument's contracts and n*p to
\* its dollars_at_risk; a 25-dollar open at an ask of 0.20 from no position
\* leaves contracts 125 and dollars_at_risk 25.
C12_DryRunBooksFills ==
    (dry_run /\ last_exec # None) =>
        LET e == last_exec[1]
            mid == e.intent.market_id
        IN  /\ venue_calls = [balance |-> 0, orders |-> 0]
            /\ ~e.balance_fetched /\ ~e.submitted
            /\ e.payload.ok => e.ok
            /\ (e.ok /\ e.intent.action = "open") =>
                   /\ mid \in DOMAIN positions
                   /\ positions[mid].contracts =
                          Held(e.positions, mid).contracts + e.payload.count
                   /\ positions[mid].dollars_at_risk =
                          Held(e.positions, mid).dollars_at_risk
                              + e.payload.count * e.payload.price_cents
                   /\ \A x \in MarketIds \ {mid} :
                          Held(positions, x) = Held(e.positions, x)
            /\ (/\ e.intent.action = "open"
                /\ e.intent.position_size = 2500
                /\ e.limit_price = Some(200)
                /\ mid \notin DOMAIN e.positions)
                   => /\ e.ok
                      /\ positions[mid] =
                             [dollars_at_risk |-> 2500, contracts |-> 125]

\* a dry-run broker holding 125 contracts opened 25 dollars more at 0.20 in
\* the same instrument
C12_Witness ==
    /\ dry_run
    /\ last_exec # None
    /\ last_exec[1].ok
    /\ last_exec[1].intent.action = "open"
    /\ last_exec[1].intent.position_size = 2500
    /\ last_exec[1].limit_price = Some(200)
    /\ last_exec[1].intent.market_id \in DOMAIN positions
    /\ positions[last_exec[1].intent.market_id] =
           [dollars_at_risk |-> 5000, contracts |-> 250]
\* C13: execute never raises: an exception raised while building the
\* payload, checking the balance or submitting the order is turned into a
\* failed result that carries a message.
C13_ExecuteNeverRaises ==
    last_exec # None =>
        LET e == last_exec[1]
        IN  /\ ~e.raised
            /\ ~e.ok => e.error # ""
            /\ ~e.payload.ok => (~e.ok /\ e.error = e.payload.error)
            /\ (e.balance_fetched /\ e.balance = None) =>
                   (~e.ok /\ e.error = "balance_check_failed")
            /\ (e.submitted /\ positions = e.positions
                /\ e.intent.action = "open") =>
                   (~e.ok /\ e.error = "order_failed")

\* a live broker has seen, in two calls, the balance lookup raise and then
\* place_order raise
C13_Witness ==
    /\ last_exec # None
    /\ ~dry_run
    /\ venue_calls = [balance |-> 2, orders |-> 1]
    /\ last_exec[1].error = "order_failed"
    /\ last_exec[1].intent.action = "open"
    /\ positions = <<>>
\* a quoted number that is there: not None and not zero
Quoted(x) == x # None /\ x[1] > 0

\* C14: the price of an order is the intent's explicit limit price when it
\* has one; otherwise an open is priced at the ask, else at the last trade,
\* else at the bid, and a close at the bid, else at the last trade, never at
\* the ask.  With no price, or one outside (0, 0.99], the order is rejected:
\* a failed result, no call to the venue, the positions as before.
C14_EffectivePrice ==
    (last_exec # None /\ last_exec[1].intent.action \in {"open", "close"}) =>
        LET e == last_exec[1]
            q == e.quote
            expected ==
                IF e.intent.price # None THEN e.intent.price
                ELSE IF q = None THEN None
                ELSE IF e.intent.action = "open"
                THEN IF Quoted(q[1].yes_ask_prob) THEN q[1].yes_ask_prob
                     ELSE IF Quoted(q[1].price) THEN q[1].price
                     ELSE IF Quoted(q[1].yes_bid_prob) THEN q[1].yes_bid_prob
                     ELSE None
                ELSE IF Quoted(q[1].yes_bid_prob) THEN q[1].yes_bid_prob
                     ELSE IF Quoted(q[1].price) THEN q[1].price
                     ELSE None
        IN  /\ e.limit_price = expected
            /\ (expected = None \/ expected[1] <= 0 \/ expected[1] > 990) =>
                   /\ ~e.ok /\ e.error = "invalid_price"
                   /\ ~e.balance_fetched /\ ~e.submitted
                   /\ positions = e.positions
            /\ e.payload.ok => e.payload.price_cents * 10 = expected[1]

\* a close priced by the broker from a full book (ask 0.20, last 0.19, bid
\* 0.18) was accepted
C14_Witness ==
    /\ last_exec # None
    /\ last_exec[1].intent.action = "close"
    /\ last_exec[1].intent.price = None
    /\ last_exec[1].quote # None
    /\ last_exec[1].quote[1].yes_ask_prob = Some(200)
    /\ last_exec[1].ok
    /\ last_exec[1].payload.price_cents = 18
\* C15, as stated: the contract count of every order the broker builds, open
\* or close, is floor(requested size / effective price) clamped to at least
\* 1 and at most max_contracts_per_order, and so is never above the ceiling.
C15_Sizing ==
    (last_exec # None /\ last_exec[1].payload.ok) =>
        LET e == last_exec[1]
            floor == (e.intent.position_size * 10) \div e.limit_price[1]
        IN  /\ e.payload.count = Max(1, Min(floor, MAX_CONTRACTS_PER_ORDER))
            /\ e.payload.count <= MAX_CONTRACTS_PER_ORDER
\* C37: an order the broker has built is a buy only for an intent whose
\* action is "open" and a sell only for one whose action is "close"
C37_BuyOnlyToOpen ==
    last_exec # None /\ last_exec[1].payload.ok =>
        /\ last_exec[1].payload.action = "buy"
              => last_exec[1].intent.action = "open"
        /\ last_exec[1].payload.action = "sell"
              => last_exec[1].intent.action = "close"

\* C38: every instrument of the position map has at least one contract and
\* a positive dollars_at_risk; the map is empty before the first execute
\* call, an execute call that succeeds with an "open" puts its instrument
\* into the map, one that succeeds with a "close" takes its instrument out
\* whole, and every other call leaves the instruments of the map as they
\* were
C38_PositionInvariant ==
    /\ \A mid \in DOMAIN positions :
          positions[mid].contracts >= 1 /\ positions[mid].dollars_at_risk > 0
    /\ last_exec = None => positions = <<>>
    /\ last_exec # None =>
          LET e == last_exec[1]
              mid == e.intent.market_id
          IN  DOMAIN positions =
                  IF e.ok /\ e.intent.action = "open"
                  THEN DOMAIN e.positions \cup {mid}
                  ELSE IF e.ok /\ e.intent.action = "close"
                  THEN DOMAIN e.positions \ {mid}
                  ELSE DOMAIN e.positions

\* a position opened by one execute call has been closed by the next, and
\* the map is empty again
C38_Witness ==
    /\ last_exec # None
    /\ last_exec[1].ok
    /\ last_exec[1].intent.action = "close"
    /\ last_exec[1].intent.market_id \in DOMAIN last_exec[1].positions
    /\ last_exec[1].positions[last_exec[1].intent.market_id].contracts >= 1
    /\ positions = <<>>

----------------------------------------------------------------------------
(* Properties of the game worker, under WorkerSpec *)

\* C16, as stated: when a strategy of the composite raises on a State, the
\* other strategies are still evaluated on that State and the intents they
\* return are forwarded to the broker and executed.
C16_OtherStrategiesForwarded ==
    (w_last # None /\ w_last[1].traded) =>
        LET e == w_last[1]
        IN  \A i \in Strategies :
                e.outs[i] = "one" =>
                    /\ \E j \in 1..Len(e.forwarded) :
                           e.forwarded[j].strategy = i
                    /\ \E j \in 1..Len(e.executed) :
                           e.executed[j].intent.strategy = i

C18_FlushOnEveryExit ==
    w_phase = "exited" => w_flushed

\* C19, as stated: a worker that failed to record a State does not end as a
\* normal exit: run_worker raises (a non-zero exit).
C19_LostStateIsLoud ==
    (w_phase = "exited" /\ w_lost) => w_raised

\* C20, as stated: while the worker is active a settlement check is issued
\* every REST_CHECK_SECS of wall-clock time, whether or not a State arrives:
\* the last check (or the start of the loop) is never more than the interval
\* and one clock step back.
C20_SettlementCheckEveryInterval ==
    w_phase = "active" =>
        (w_clock - w_last_rest_check) * ClockStep <= REST_CHECK_SECS + ClockStep
\* C21, as stated: a worker whose stream is still producing leaves the loop
\* for its terminal end only on a settlement check that found every tracked
\* instrument in a terminal status; a check in which a lookup failed or an
\* instrument was not terminal leaves the worker active.
C21_LeavesOnlyWhenSettled ==
    /\ (w_phase = "exited" /\ w_exit \in {"terminal", "final"}) =>
           /\ w_last[1].checked
           /\ w_check # None
           /\ \A i \in DOMAIN Tickers :
                  w_check[1][i] \in TerminalStatuses(league)
    /\ (w_last # None /\ w_last[1].checked
        /\ \E i \in DOMAIN Tickers :
               w_check[1][i] \notin TerminalStatuses(league))
           => w_last[1].phase_after = "active"
----------------------------------------------------------------------------
(* Properties of the tick streams, under TickSpec *)

\* C22: every failure the stream catches is followed by exactly one backoff
\* of BACKOFF_SECS and then the next connection attempt, which sends the
\* subscription before any read; after N failures the stream is reading on
\* attempt N+1 (idle reconnects apart), and a reconnect yields nothing by
\* itself: ticks are yielded one per accepted frame read.
C22_ReconnectAfterBackoff ==
    /\ t_pc = "backoff" => t_failures = t_backoffs + 1
    /\ t_pc \in {"start", "reading", "ended"} => t_failures = t_backoffs
    /\ t_pc = "reading" => /\ t_attempts = t_failures + t_idle_breaks + 1
                           /\ t_subscribed >= 1
    /\ t_pc = "start" => t_attempts = t_failures + t_idle_breaks
    /\ t_subscribed <= t_attempts
    /\ (t_last # None /\ t_pc # "cancelled") =>
           LET e == t_last[1]
           IN  /\ e.event = "backoff" =>
                      /\ t_clock = e.at + BACKOFF_SECS
                      /\ t_pc = "start"
               /\ (e.event = "connect" /\ e.outcome = "ok") =>
                      /\ t_pc = "reading"
                      /\ t_subscribed = e.subscribed + 1
                      /\ t_attempts = e.attempts + 1
               /\ e.event = "connect" => t_yielded = e.yielded
               /\ e.outcome = "raise" => t_pc = "backoff"
               /\ t_yielded <= e.yielded + 1

\* three attempts failed, each after a tick; the stream, on its fourth
\* attempt, has yielded a tick again
C22_Witness ==
    /\ t_failures = 3
    /\ t_backoffs = 3
    /\ t_attempts = 4
    /\ t_subscribed = 4
    /\ t_idle_breaks = 0
    /\ t_pc = "reading"
    /\ t_yielded = 4
    /\ t_reads = 7
    /\ t_clock = 3 * BACKOFF_SECS
\* C23: a read that times out reconnects only when the time since the last
\* accepted tick (or since the subscription) exceeds
\* INACTIVITY_RECONNECT_SECS; otherwise the stream reads on, on the same
\* connection.  Every ticker message for a subscribed instrument, with or
\* without price fields, is yielded and resets that time.
C23_TimeoutAloneDoesNotReconnect ==
    (t_last # None /\ t_pc # "cancelled") =>
        LET e == t_last[1]
        IN  /\ e.event = "timeout" =>
                   /\ e.idle = t_clock - e.ticker_ts
                   /\ t_clock = e.at + READ_TIMEOUT_SECS
                   /\ e.outcome = "reconnect" <=>
                          e.idle > INACTIVITY_RECONNECT_SECS
                   /\ e.outcome = "continue" =>
                          /\ t_pc = "reading"
                          /\ t_attempts = e.attempts
                          /\ t_last_ticker_ts = e.ticker_ts
            /\ (/\ e.event = "frame"
                /\ e.frame.decodes /\ e.frame.is_object
                /\ e.frame.type = "ticker" /\ e.frame.payload = "dict"
                /\ e.frame.market \in Subscribed) =>
                   /\ e.outcome = "yield"
                   /\ t_last_ticker_ts = t_clock
            /\ (e.event = "frame" /\ e.outcome # "yield") =>
                   t_last_ticker_ts = e.ticker_ts

\* a third read in a row timed out, 90 s after a tick without price fields
\* was taken up, and the stream reads on
C23_Witness ==
    /\ t_last # None
    /\ t_last[1].event = "timeout"
    /\ t_last[1].idle = INACTIVITY_RECONNECT_SECS
    /\ t_last[1].outcome = "continue"
    /\ t_pc = "reading"
    /\ t_yielded = 1
    /\ t_last[1].ticker_ts = 20
\* C24: a tick stream that was started with instruments never ends on its
\* own: only cancellation ends it.
C24_NeverEndsOnItsOwn == t_pc # "ended"

\* C25: a message that cannot be decoded, or decodes to something that is
\* not an object with a type, is dropped on its own: the connection is kept
\* and no backoff follows; a message of another type or (ticker_stream) for
\* an instrument that was not subscribed is dropped and never yielded.
C25_MalformedMessageOnlyDropped ==
    (t_last # None /\ t_pc # "cancelled" /\ t_last[1].event = "frame") =>
        LET e == t_last[1]
            f == e.frame
            malformed == ~f.decodes \/ ~f.is_object \/ f.type = "none"
            foreign == \/ f.type # "ticker"
                       \/ t_impl = "ticker_stream" /\ f.market \notin Subscribed
        IN  /\ malformed => /\ e.outcome = "drop"
                            /\ t_pc = "reading"
                            /\ t_attempts = e.attempts
                            /\ t_failures = t_backoffs
            /\ (~malformed /\ foreign /\ f.payload = "dict") =>
                   /\ e.outcome = "drop"
                   /\ t_yielded = e.yielded

\* the same, for messages that cannot be decoded at all and for well-formed
\* envelopes only
C25_UndecodableOrForeignDropped ==
    (t_last # None /\ t_pc # "cancelled" /\ t_last[1].event = "frame") =>
        LET e == t_last[1]
            f == e.frame
            foreign == \/ f.type # "ticker"
                       \/ t_impl = "ticker_stream" /\ f.market \notin Subscribed
        IN  (~f.decodes \/ (f.is_object /\ foreign /\ f.payload = "dict")) =>
                /\ e.outcome = "drop"
                /\ t_pc = "reading"
                /\ t_attempts = e.attempts
                /\ t_failures = t_backoffs
                /\ t_yielded = e.yielded
\* C26: the merger's sequence of States ends only after both the tick
\* source and the scoreboard source are exhausted; the scoreboard running
\* out alone does not end it.
C26_EndsOnlyAfterBothExhausted ==
    pc \in {"done", "crashed"} => ~tick_src_open /\ ~score_src_open

\* the same for the NFL merger alone
C26_NFLEndsOnlyAfterBothExhausted ==
    (league = "nfl" /\ pc \in {"done", "crashed"}) =>
        ~tick_src_open /\ ~score_src_open

\* C27: when the worker flushes and finishes, the merger's background tasks
\* have been cancelled and awaited.
C27_TasksCancelledBeforeFlush == w_flushed => w_bg # "running"

\* the same when the worker stops because the stream ran out
C27_CancelledWhenExhausted ==
    (w_flushed /\ w_exit = "exhausted") => w_bg = "cancelled"
----------------------------------------------------------------------------
(* Properties of the state log, under WriterSpec *)

IsPrefixOf(a, b) == Len(a) <= Len(b) /\ SubSeq(b, 1, Len(a)) = a

\* C28: as long as no write was cut short, reading the states file back
\* yields exactly the States whose append returned, once each and in the
\* order they were appended, and a State has gone on to the strategies only
\* after its append returned.
C28_LogReadsBackWhatWasAppended ==
    f_torn = 0 =>
        /\ LoadStatesForGame(f_file) = Some(f_appended)
        /\ f_evaluated = f_appended
        /\ f_count <= Len(f_appended)
        /\ f_phase # "crashed"

\* three States, one of them twice, appended over two runs of the worker
\* and read back
C28_Witness ==
    /\ f_torn = 0 /\ f_runs = 2 /\ f_count = 2
    /\ f_appended = <<"s1", "s2", "s1">>
    /\ LoadStatesForGame(f_file) = Some(<<"s1", "s2", "s1">>)

\* C29: whatever happens to a writer inside append_state, the States of the
\* appends that returned before can still be read back from the file.
C29_EarlierRecordsReadable ==
    f_appended # <<>> =>
        /\ LoadStatesForGame(f_file) # None
        /\ IsPrefixOf(f_appended, LoadStatesForGame(f_file)[1])
----------------------------------------------------------------------------
(* Properties of the strategies, under StrategySpec *)

----------------------------------------------------------------------------
(* Properties of the NFL merger's loop, under LoopSpec *)

\* C31: every snapshot the scoreboard source has delivered is, some time
\* later, the snapshot of an emitted State or superseded by a later one in
\* an emitted State, unless a source has failed or the merger has ended
\* before; this is to hold also while ticks keep arriving as the consumer
\* works on each State
C31_EverySnapshotReachesAState ==
    \A n \in 1..MaxSnaps :
        (l_delivered >= n)
            ~> \/ loop.shown >= n
               \/ loop.pc \in {"done", "raised"}
               \/ "failed" \in {l_tick_src, l_score_src}

\* C40: once the tick source or the scoreboard source has failed, the merger
\* some time later has ended, normally or by raising the error; stated for
\* a merger that has applied a snapshot, and so has States to emit
C40_FailureEndsTheMerger ==
    (/\ l_tick_src = "failed" \/ l_score_src = "failed"
     /\ loop.latest_score # 0)
        ~> (loop.pc \in {"done", "raised"})
\* C33, the evaluation: LateGameUnderdogStrategy.on_state leaves every
\* market of the State it is handed as it found it
C33_EvaluationLeavesTheStateAlone ==
    s_in # None /\ s_name = "late_game_underdog"
        => LateGameMarks(Params, s_in[1].state) = {}
----------------------------------------------------------------------------
(* Properties of the deficit-recovery strategy, under DeficitSpec *)

\* the deficits of a side in the States of game g seen so far
SeenDeficits(g, on) ==
    { IF on = "home" THEN s[3] - s[2] ELSE s[2] - s[3] :
        s \in {t \in d_seen : t[1] = g} }

\* the largest of them, 0 if the side has never trailed
LargestSeen(g, on) ==
    CHOOSE d \in SeenDeficits(g, on) \cup {0} :
        \A e \in SeenDeficits(g, on) \cup {0} : e <= d

\* C34: the strategy remembers, per game id and side, the largest deficit
\* of the States seen so far (0 while the side has never trailed); and the
\* intents of a call are exactly one "open" of the stake for each moneyline
\* market of a side whose current deficit is within [0, max_current_deficit],
\* whose remembered maximum is at least min_initial_deficit, whose effective
\* buy price is in (min_price, max_price], and on which no position is held
C34_DeficitRecovery ==
    /\ DOMAIN d_games = {s[1] : s \in d_seen}
    /\ \A g \in DOMAIN d_games :
          /\ d_games[g].home_max_deficit = LargestSeen(g, "home")
          /\ d_games[g].away_max_deficit = LargestSeen(g, "away")
    /\ d_out # None =>
          LET st == d_in[1].state
              p == DeficitParams
              Fires(m) ==
                  LET on == DeficitSide(m, st)
                      cur == IF on = "home" THEN st.score_away - st.score_home
                             ELSE st.score_home - st.score_away
                      buy == LateEffectiveOpenPrice(m)
                  IN  /\ m.type = "moneyline"
                      /\ on # ""
                      /\ cur \in 0..p.max_current_deficit
                      /\ LargestSeen(st.game_id, on) >= p.min_initial_deficit
                      /\ buy # None
                      /\ buy[1] > p.min_price /\ buy[1] <= p.max_price
                      /\ \A i \in 1..Len(d_in[1].positions) :
                            d_in[1].positions[i].market_id # m.market_id
              firing == {i \in 1..Len(st.markets) : Fires(st.markets[i])}
          IN  /\ Len(d_out[1]) = Cardinality(firing)
              /\ \A i \in firing : \E k \in 1..Len(d_out[1]) :
                    d_out[1][k] = TradeIntent(st.markets[i].market_id, "open",
                                              p.stake, None)
              /\ \A k \in 1..Len(d_out[1]) : \E i \in firing :
                    /\ d_out[1][k].market_id = st.markets[i].market_id
                    /\ d_out[1][k].action = "open"

\* a side that had been 10 down and is now within reach is bought, in a
\* game whose other side has never trailed by that much
C34_Witness ==
    /\ d_out # None
    /\ d_out[1] # <<>>
    /\ \E g \in DOMAIN d_games :
          d_games[g].home_max_deficit = 10 /\ d_games[g].away_max_deficit = 0
    /\ \E g \in DOMAIN d_games : d_games[g].home_max_deficit < 10
----------------------------------------------------------------------------
(* Properties of the trading cycle, under CycleSpec *)

\* C35: in a cycle whose State shows, for an instrument held, a bid of at
\* least the price the position was opened at times (1 + profit_target_pct),
\* the intents returned for that State hold a "close" for the instrument
C35_ProfitTargetCloses ==
    (c_state # None /\ c_pending = c_intents) =>
        \A mid \in DOMAIN positions :
            LET m == MarketEntry(c_state[1], mid)
            IN  (/\ m # None
                 /\ m[1].yes_bid_prob # None
                 /\ m[1].yes_bid_prob[1] * 100
                        >= c_entry[mid] * (100 + Params.profit_target_pct))
                => \E k \in 1..Len(c_intents) :
                      /\ c_intents[k].market_id = mid
                      /\ c_intents[k].action = "close"

\* C36: no "open" is executed with success on an instrument on which a
\* position is held when execute is called
C36_NoOpenWhileHeld ==
    (/\ last_exec # None
     /\ last_exec[1].ok
     /\ last_exec[1].intent.action = "open")
        => last_exec[1].intent.market_id \notin DOMAIN last_exec[1].positions

\* C39 as stated: a balance lookup or an order reaches the venue only when
\* the configured mode is exactly "live"
C39_LiveOnlyWhenExactlyLive ==
    venue_calls # [balance |-> 0, orders |-> 0] => mode_str = Some("live")

\* C39: the broker is live exactly when the configured mode is "live" in
\* some spelling of upper and lower case; with no mode or any other mode it
\* is a dry-run broker, no balance lookup and no order has reached the
\* venue, and the last execute call made neither
C39_ModeGate ==
    LET live == mode_str \in {Some("live"), Some("LIVE"), Some("Live")}
    IN  /\ dry_run = ~live
        /\ ~live =>
              /\ venue_calls = [balance |-> 0, orders |-> 0]
              /\ last_exec # None =>
                    ~last_exec[1].balance_fetched /\ ~last_exec[1].submitted

\* a worker configured with a mode that is not "live" has had a buy
\* accepted by its broker
C39_Witness ==
    /\ mode_str = Some("paper")
    /\ last_exec # None
    /\ last_exec[1].ok
    /\ last_exec[1].payload.action = "buy"
    /\ positions # <<>>

=============================================================================
